---------------------------- MODULE Spec2Model ----------------------------
(***************************************************************************)
(* ForkTrace: the indexing client's retry protocol (EtherscanClient),     *)
(* the fork process manager (AnvilManager) and the orchestrator            *)
(* (runForkTrace), modelled as state machines.                             *)
(*                                                                         *)
(* Text is modelled as a sequence of words; an error is a record of its    *)
(* `type` field and its message.  An error that is not a ForkTraceError    *)
(* (an AxiosError, a TypeError) has no `type` field: type "undefined".     *)
(***************************************************************************)
EXTENDS Integers, Sequences, FiniteSets, TLC

VARIABLES
    script,     \* per query: the responses the indexing service will give, in order
    call,       \* per query: the activation record of EtherscanClient._proxyCall
    process,    \* AnvilManager: this.process, the handle start() stores
    proc,       \* AnvilManager: this.proc, the handle kill() and isRunning() read
    _killed,    \* AnvilManager: this._killed
    child,      \* the external anvil process and its ChildProcess object
    signals,    \* the signals sent through ChildProcess.kill, in order
    port,       \* who else listens on the manager's port: nobody or another process
    startCall,  \* the activation of start() that spawned: pc, loop index i
    starts,     \* history: every start() call, "spawned" or "rejected"
    kills,      \* history: one record per kill() call
    opts,       \* runForkTrace: the options of the run
    run,        \* runForkTrace: position, the manager reference, the log
    cli,        \* bin/fork-trace.js: the action of the command
    fetch,      \* the activation of EtherscanClient.getTransactionData
    replay,     \* a call of TransactionReplayer.replayTransaction
    sd,         \* a call of StateDiff.diff and the chain it reads
    sm          \* a StateManager, its state directory and the calls made on it

proxyVars == <<script, call>>

anvilVars == <<process, proc, _killed, child, signals, port, startCall, starts,
              kills>>

runVars == <<opts, run, cli>>

callVars == <<fetch, replay, sd, sm>>

vars == <<script, call, process, proc, _killed, child, signals, port,
          startCall, starts, kills, opts, run, cli, fetch, replay, sd, sm>>

-----------------------------------------------------------------------------
(* src/config/constants.js *)

ETHERSCAN_MAX_RETRIES == 3

ETHERSCAN_RETRY_DELAY_MS == 100

ANVIL_KILL_TIMEOUT_MS == 3000

-----------------------------------------------------------------------------
(* src/utils/error-handler.js: ForkTraceError and its factories *)

ForkTraceError(message, type) == [type |-> type, message |-> message]

createValidationError(message) == ForkTraceError(message, "VALIDATION_ERROR")

createNetworkError(message) == ForkTraceError(message, "NETWORK_ERROR")

createEtherscanError(message) == ForkTraceError(message, "ETHERSCAN_ERROR")

createReplayError(message) == ForkTraceError(message, "REPLAY_ERROR")

\* `null`, as the value of lastError before any attempt has failed
NullError == [type |-> "null", message |-> <<>>]

\* an error thrown by the HTTP library itself: it carries no `type`
AxiosError == [type |-> "undefined", message |-> <<"Network", "Error">>]

-----------------------------------------------------------------------------
(* AnvilManager (src/modules/anvil-manager.js) *)

\* start(): const maxAttempts = 20
maxAttempts == 20

\* calls the environment makes on one manager
MaxStartCalls == 2

MaxKillCalls == 3

NoChild == [state |-> "none", listening |-> FALSE, killed |-> FALSE]

\* constructor: this.proc = null; this._killed = false (this.process is unset)
InitAnvilManager ==
    /\ process = "null"
    /\ proc = "null"
    /\ _killed = FALSE
    /\ child = NoChild
    /\ signals = <<>>
    /\ port = "free"
    /\ startCall = [pc |-> "idle", i |-> 0, error |-> NullError]
    /\ starts = <<>>
    /\ kills = <<>>

\* ChildProcess.kill(signal): the signal is delivered when the process is
\* still running, and then `killed` is set; SIGKILL ends the process.
ChildKill(ch, sig) ==
    IF ch.state = "alive"
      THEN [state |-> IF sig = "SIGKILL" THEN "exited" ELSE ch.state,
            listening |-> IF sig = "SIGKILL" THEN FALSE ELSE ch.listening,
            killed |-> TRUE]
      ELSE ch

\* the error start() throws after the loop
StartError ==
    createNetworkError(<<"Anvil", "did", "not", "respond", "on", "port">>)

\* a start() that begins the probe loop again when it runs out
LoopExitRestarts(i) == [pc |-> "probing", i |-> 0, error |-> NullError]

\* a start() that gives up without an error
LoopExitReturns(i) == [pc |-> "returned", i |-> i, error |-> NullError]

\* the probe loop is left without a response: the throw after it
LoopExit(i) == [pc |-> "raised", i |-> i, error |-> StartError]

\* a guard that reads the field kill() and isRunning() read
AlreadyStartedReadsProc == proc # "null"

\* if (this.process)
AlreadyStarted == process # "null"

\* isRunning(): !!(this.proc && !this.proc.killed && !this._killed)
isRunning == proc # "null" /\ ~child.killed /\ ~_killed

\* anvil.start(args), up to the first probe
StartEntry ==
    IF AlreadyStarted
      THEN \* throw new Error('Anvil is already running')
           /\ starts' = Append(starts, "rejected")
           /\ UNCHANGED <<process, proc, _killed, child, signals, port, startCall, kills>>
      ELSE \* this.process = spawn('anvil', args, ...)
           /\ process' = "child"
           /\ child' = [state |-> "alive", listening |-> FALSE, killed |-> FALSE]
           /\ starts' = Append(starts, "spawned")
           /\ startCall' = IF 0 < maxAttempts
                              THEN [pc |-> "probing", i |-> 0, error |-> NullError]
                              ELSE LoopExit(0)
           /\ UNCHANGED <<proc, _killed, signals, port, kills>>

\* what the awaited fetch can do: answer (ok or not) when a process is
\* listening on the port, the spawned one or another, since the request goes
\* to http://127.0.0.1:port and start() never asks who holds the port; fail
\* to connect when nobody listens; a process that accepts the connection
\* and never answers leaves the fetch, which is given no timeout of its
\* own, to the timeout of the runtime ("timeout")
ProbeOutcomes ==
    IF (child.state = "alive" /\ child.listening) \/ port = "foreign"
      THEN {"ok", "notok", "timeout"}
      ELSE {"refused"}

\* the awaited fetch settles: return on response.ok, else sleep delayMs
ProbeResult ==
    /\ startCall.pc = "probing"
    /\ \E outcome \in ProbeOutcomes :
          startCall' = IF outcome = "ok"
                         THEN [startCall EXCEPT !.pc = "returned"]
                         ELSE [startCall EXCEPT !.pc = "sleeping"]
    /\ UNCHANGED <<script, call, process, proc, _killed, child, signals, port,
                   starts, kills, runVars, callVars>>

\* the delay ends: i++, the loop test, and after the loop the throw
SleepDone ==
    /\ startCall.pc = "sleeping"
    /\ startCall' = IF startCall.i + 1 < maxAttempts
                      THEN [startCall EXCEPT !.pc = "probing",
                                             !.i = startCall.i + 1]
                      ELSE LoopExit(startCall.i + 1)
    /\ UNCHANGED <<script, call, process, proc, _killed, child, signals, port,
                   starts, kills, runVars, callVars>>

\* a guard without the null test
KillGuardNoNullCheck == _killed

\* if (!this.proc || this._killed) return;
KillGuard == proc = "null" \/ _killed

\* this.proc.kill(sig) inside try/catch: on a null handle the TypeError is
\* swallowed and nothing is sent
TryKill(st, sig) ==
    IF proc = "null" THEN st
    ELSE [st EXCEPT !.child = ChildKill(st.child, sig),
                    !.sent = Append(st.sent, sig)]

\* The statements of kill(force) after the guard: the child, the signals
\* sent, the time waited, and whether the call raised.  The grace-period
\* loop reads this.proc.killed, which only a kill() changes, so it either
\* does not wait at all or waits until the deadline.
KillBody(force) ==
    LET s0 == [child |-> child, sent |-> <<>>, waited |-> 0, raised |-> FALSE]
        s1 == TryKill(s0, "SIGINT")
    IN IF force THEN TryKill(s1, "SIGKILL")
       ELSE IF proc = "null" THEN [s1 EXCEPT !.raised = TRUE]
       ELSE IF s1.child.killed THEN s1
       ELSE TryKill([s1 EXCEPT !.waited = ANVIL_KILL_TIMEOUT_MS], "SIGKILL")

\* anvil.kill(force)
KillEntry(force) ==
    LET during == startCall.pc \in {"probing", "sleeping"}
        base == [force |-> force, spawned |-> process # "null",
                 duringStart |-> during, sent |-> <<>>, waited |-> 0,
                 raised |-> FALSE, aliveAfter |-> child.state = "alive"]
    IN IF KillGuard
         THEN /\ kills' = Append(kills, base)
              /\ UNCHANGED <<process, proc, _killed, child, signals, port,
                             startCall, starts>>
         ELSE LET r == KillBody(force)
              IN /\ _killed' = TRUE
                 /\ child' = r.child
                 /\ signals' = signals \o r.sent
                 /\ kills' = Append(kills, [base EXCEPT !.sent = r.sent,
                                                        !.waited = r.waited,
                                                        !.raised = r.raised,
                                                        !.aliveAfter =
                                                          r.child.state = "alive"])
                 /\ UNCHANGED <<process, proc, port, startCall, starts>>

\* the environment: a caller of the manager, and the external process
EnvStart ==
    /\ Len(starts) < MaxStartCalls
    /\ StartEntry
    /\ UNCHANGED <<proxyVars, runVars, callVars>>

EnvKill ==
    /\ Len(kills) < MaxKillCalls
    /\ \E force \in BOOLEAN : KillEntry(force)
    /\ UNCHANGED <<proxyVars, runVars, callVars>>

\* anvil prints "Listening on" and answers JSON-RPC from now on
ChildListen ==
    /\ child.state = "alive"
    /\ ~child.listening
    /\ port = "free"
    /\ child' = [child EXCEPT !.listening = TRUE]
    /\ UNCHANGED <<script, call, process, proc, _killed, signals, port, startCall,
                   starts, kills, runVars, callVars>>

\* the process ends: on its own, or on a signal it has received
ChildExit ==
    /\ child.state = "alive"
    /\ child' = [child EXCEPT !.state = "exited", !.listening = FALSE]
    /\ UNCHANGED <<script, call, process, proc, _killed, signals, port, startCall,
                   starts, kills, runVars, callVars>>

-----------------------------------------------------------------------------
(* src/utils/validators.js.  A hash argument is either not a string, or a
   string given as runs of one repeated character: the characters of
   <<[ch |-> "0", n |-> 1], [ch |-> "x", n |-> 1], [ch |-> "a", n |-> 64]>>
   are 0, x and sixty-four a's. *)

\* the characters of a string given as runs
RECURSIVE Chars(_)
Chars(runs) ==
    IF runs = <<>> THEN <<>>
    ELSE [k \in 1..Head(runs).n |-> Head(runs).ch] \o Chars(Tail(runs))

\* [a-fA-F0-9]
HexClass ==
    {"0", "1", "2", "3", "4", "5", "6", "7", "8", "9",
     "a", "b", "c", "d", "e", "f", "A", "B", "C", "D", "E", "F"}

\* the length of the hexadecimal body of a transaction hash
HashBodyLength == 64

\* /0x[a-fA-F0-9]{64}/ without the anchors: a match anywhere in the string
MatchesUnanchored(s) ==
    \E at \in 0..(Len(s) - HashBodyLength - 2) :
        /\ s[at + 1] = "0"
        /\ s[at + 2] = "x"
        /\ \A k \in 1..HashBodyLength : s[at + 2 + k] \in HexClass

\* /^0x[a-fA-F0-9]{64}$/.test(s)
Matches(s) ==
    /\ Len(s) = HashBodyLength + 2
    /\ s[1] = "0"
    /\ s[2] = "x"
    /\ \A k \in 1..HashBodyLength : s[2 + k] \in HexClass

\* a validator that forgets the anchors of the pattern
validateUnanchored(hash) == hash.isString /\ MatchesUnanchored(Chars(hash.runs))

\* validateTransactionHash(hash)
validateTransactionHash(hash) == hash.isString /\ Matches(Chars(hash.runs))

\* `${txHash}`
HashText(hash) == IF hash.isString THEN Chars(hash.runs) ELSE <<"undefined">>

-----------------------------------------------------------------------------
(* Arbitrary-precision integers (BigInt) and their decimal strings.
   A BigInt is a sign and a magnitude, the decimal digits least significant
   first, without leading zeros; zero has no digits. *)

RECURSIVE Reverse(_)
Reverse(s) == IF s = <<>> THEN <<>> ELSE Append(Reverse(Tail(s)), Head(s))

\* drop the zeros at the most significant end
RECURSIVE Normalise(_)
Normalise(mag) ==
    IF mag = <<>> THEN <<>>
    ELSE IF mag[Len(mag)] = 0 THEN Normalise(SubSeq(mag, 1, Len(mag) - 1))
    ELSE mag

MakeBig(neg, mag) ==
    LET m == Normalise(mag) IN [neg |-> neg /\ m # <<>>, mag |-> m]

\* is magnitude x less than magnitude y
RECURSIVE MagLess(_, _)
MagLess(x, y) ==
    IF Len(x) # Len(y) THEN Len(x) < Len(y)
    ELSE IF x = <<>> THEN FALSE
    ELSE IF x[Len(x)] # y[Len(y)] THEN x[Len(x)] < y[Len(y)]
    ELSE MagLess(SubSeq(x, 1, Len(x) - 1), SubSeq(y, 1, Len(y) - 1))

Digit(s, k) == IF k <= Len(s) THEN s[k] ELSE 0

\* x + y on magnitudes, digit by digit with a carry
RECURSIVE MagAddFrom(_, _, _, _)
MagAddFrom(x, y, k, carry) ==
    IF k > Len(x) /\ k > Len(y)
      THEN IF carry = 0 THEN <<>> ELSE <<carry>>
    ELSE LET d == Digit(x, k) + Digit(y, k) + carry
         IN <<d % 10>> \o MagAddFrom(x, y, k + 1, d \div 10)

\* x - y on magnitudes (x >= y), digit by digit with a borrow
RECURSIVE MagSubFrom(_, _, _, _)
MagSubFrom(x, y, k, borrow) ==
    IF k > Len(x) THEN <<>>
    ELSE LET d == Digit(x, k) - Digit(y, k) - borrow
         IN <<(d + 10) % 10>> \o
            MagSubFrom(x, y, k + 1, IF d < 0 THEN 1 ELSE 0)

\* a + b on BigInts
BigAdd(a, b) ==
    IF a.neg = b.neg THEN MakeBig(a.neg, MagAddFrom(a.mag, b.mag, 1, 0))
    ELSE IF MagLess(a.mag, b.mag)
      THEN MakeBig(b.neg, MagSubFrom(b.mag, a.mag, 1, 0))
    ELSE MakeBig(a.neg, MagSubFrom(a.mag, b.mag, 1, 0))

\* a - b on BigInts
BigSub(a, b) == BigAdd(a, MakeBig(~b.neg, b.mag))

DigitChars == <<"0", "1", "2", "3", "4", "5", "6", "7", "8", "9">>

\* BigInt.prototype.toString(): the characters, most significant first
BigToString(a) ==
    (IF a.neg THEN <<"-">> ELSE <<>>) \o
    (IF a.mag = <<>> THEN <<"0">>
     ELSE [k \in 1..Len(a.mag) |-> DigitChars[a.mag[Len(a.mag) + 1 - k] + 1]])

CharDigit(c) == CHOOSE d \in 0..9 : DigitChars[d + 1] = c

\* BigInt(string) on a decimal string
BigInt(str) ==
    LET neg == str # <<>> /\ str[1] = "-"
        body == IF neg THEN Tail(str) ELSE str
    IN MakeBig(neg, [k \in 1..Len(body) |->
                        CharDigit(body[Len(body) + 1 - k])])

-----------------------------------------------------------------------------
(* StateDiff (src/modules/state-diff.js).  The chain is a function from a
   block tag and an address to the account there: its balance (a BigInt),
   its transaction count and its code (a sequence of bytes, <<>> for '0x'). *)

\* keccak256(code): a digest that differs for different code and is never
\* the two characters '0x'
keccak256(code) == <<255>> \o code

\* the '0x' string
EmptyHex == <<>>

\* a snapshot that reports the sentinel for every account
getAccountSnapshotNoHash(chain, address, blockTag) ==
    LET acct == chain[blockTag][address]
    IN [address |-> address,
        balance |-> BigToString(acct.balance),
        nonce |-> acct.nonce,
        codeHash |-> EmptyHex,
        codeSize |-> Len(acct.code)]

\* #getAccountSnapshot(address, blockTag)
getAccountSnapshot(chain, address, blockTag) ==
    LET acct == chain[blockTag][address]
    IN [address |-> address,
        balance |-> BigToString(acct.balance),
        nonce |-> acct.nonce,
        codeHash |-> IF acct.code = EmptyHex THEN EmptyHex
                                             ELSE keccak256(acct.code),
        codeSize |-> Len(acct.code)]

\* captureState(blockTag, addresses): Object.fromEntries keyed by address
captureState(chain, blockTag, addresses) ==
    [addr \in {addresses[k] : k \in 1..Len(addresses)} |->
        getAccountSnapshot(chain, addr, blockTag)]

\* an entry with the operands of the balance delta exchanged
DiffEntrySwapped(b, a) ==
    [before |-> b, after |-> a,
     balanceChange |-> BigSub(BigInt(b.balance), BigInt(a.balance)),
     nonceChange |-> a.nonce - b.nonce,
     codeChanged |-> a.codeHash # b.codeHash]

\* an entry whose snapshots are exchanged
DiffEntryExchanged(b, a) ==
    [before |-> a, after |-> b,
     balanceChange |-> BigSub(BigInt(a.balance), BigInt(b.balance)),
     nonceChange |-> b.nonce - a.nonce,
     codeChanged |-> a.codeHash # b.codeHash]

\* result[addr] = { before, after, balanceChange, nonceChange, codeChanged }
DiffEntry(b, a) ==
    [before |-> b, after |-> a,
     balanceChange |-> BigSub(BigInt(a.balance), BigInt(b.balance)),
     nonceChange |-> a.nonce - b.nonce,
     codeChanged |-> a.codeHash # b.codeHash]

\* diff(fromBlockTag, toBlockTag, addresses)
diff(chain, fromBlockTag, toBlockTag, addresses) ==
    LET before == captureState(chain, fromBlockTag, addresses)
        after == captureState(chain, toBlockTag, addresses)
    IN [addr \in {addresses[k] : k \in 1..Len(addresses)} |->
           DiffEntry(before[addr], after[addr])]

-----------------------------------------------------------------------------
(* The indexing service, as _proxyCall sees it *)

Queries == {"tx", "receipt", "block"}

ActionOf(q) ==
    CASE q = "tx" -> "eth_getTransactionByHash"
      [] q = "receipt" -> "eth_getTransactionReceipt"
      [] q = "block" -> "eth_getBlockByNumber"

\* messages the API embeds in `data.error.message`; <<>> is an absent/empty one
ApiMessages ==
    { <<"Max", "rate", "limit", "reached">>,
      <<"Rate", "Limit", "exceeded">>,
      <<"invalid", "argument">>,
      <<>> }

\* One outcome of axiosInstance.get: it rejects (with an error of the given
\* type), or resolves to {status, data: {error, result}}.
Rejections ==
    { [kind |-> "reject", thrown |-> e, status |-> 0,
       hasError |-> FALSE, errorMessage |-> <<>>, result |-> "null"] :
         e \in {AxiosError, createValidationError(<<"invalid", "params">>)} }

ErrorEnvelopes ==
    { [kind |-> "resolve", thrown |-> NullError, status |-> 200,
       hasError |-> TRUE, errorMessage |-> m, result |-> "null"] :
         m \in ApiMessages }

ResultEnvelopes ==
    { [kind |-> "resolve", thrown |-> NullError, status |-> s,
       hasError |-> FALSE, errorMessage |-> <<>>, result |-> r] :
         s \in {200, 204}, r \in {"null", "0xresult"} }

Responses == Rejections \cup ErrorEnvelopes \cup ResultEnvelopes

StatusText(s) == CASE s = 200 -> "200" [] s = 204 -> "204" [] OTHER -> "0"

-----------------------------------------------------------------------------
(* EtherscanClient._proxyCall *)

\* String.prototype.toLowerCase on the words of the vocabulary
Lower(w) ==
    CASE w = "Rate" -> "rate"
      [] w = "Limit" -> "limit"
      [] w = "Max" -> "max"
      [] w = "Null" -> "null"
      [] w = "RPC" -> "rpc"
      [] w = "HTTP" -> "http"
      [] w = "Etherscan" -> "etherscan"
      [] OTHER -> w

\* /rate limit/i.test(message)
RateLimitTest(message) ==
    \E k \in 1..(Len(message) - 1) :
        Lower(message[k]) = "rate" /\ Lower(message[k + 1]) = "limit"

\* The body of the try block for one response: [threw, error, value]
TryBody(q, resp) ==
    IF resp.kind = "reject"
      THEN [threw |-> TRUE, error |-> resp.thrown, value |-> "null"]
    ELSE IF resp.status # 200
      THEN [threw |-> TRUE, value |-> "null",
            error |-> createNetworkError(
                <<"HTTP", StatusText(resp.status), "from", "Etherscan">>)]
    ELSE IF resp.hasError
      THEN [threw |-> TRUE, value |-> "null",
            error |-> createEtherscanError(
                <<"RPC", "error:">> \o
                (IF resp.errorMessage = <<>> THEN <<"unknown">>
                                             ELSE resp.errorMessage))]
    ELSE IF resp.result = "null"
      THEN [threw |-> TRUE, value |-> "null",
            error |-> createEtherscanError(
                <<"Null", "result", "from", "Etherscan", "for", "action",
                  ActionOf(q), "(may", "be", "pending", "or", "not", "found)">>)]
    ELSE [threw |-> FALSE, error |-> NullError, value |-> resp.result]

\* a retry test that stops on validation errors only
NonRetriableValidationOnly(err) == err.type = "VALIDATION_ERROR"

\* "Stop retrying on non-retriable errors"
NonRetriable(err) ==
    \/ err.type = "VALIDATION_ERROR"
    \/ err.type = "ETHERSCAN_ERROR" /\ ~RateLimitTest(err.message)

\* a back-off that starts one doubling too far
BackoffDelayDoubled(attempt) == ETHERSCAN_RETRY_DELAY_MS * (2 ^ attempt)

\* a back-off that does not grow
BackoffDelayFlat(attempt) == ETHERSCAN_RETRY_DELAY_MS

\* "Exponential back-off"
BackoffDelay(attempt) == ETHERSCAN_RETRY_DELAY_MS * (2 ^ (attempt - 1))

\* a catch block that does not record the error
CaughtErrorKept(old, err) == old

\* the value of lastError as the catch block leaves it
CaughtError(old, err) == err

\* throw lastError || createEtherscanError('Exceeded maximum retries')
OutOfRetries(lastError) ==
    IF lastError # NullError THEN lastError
    ELSE createEtherscanError(<<"Exceeded", "maximum", "retries">>)

IdleCall ==
    [pc |-> "idle", attempt |-> 0, lastError |-> NullError, requests |-> 0,
     delays |-> <<>>, returned |-> "null", thrown |-> NullError]

\* _proxyCall is entered: attempt = 0, lastError = null, and the loop test
EnteredCall ==
    IF 0 < ETHERSCAN_MAX_RETRIES
      THEN [IdleCall EXCEPT !.pc = "request"]
      ELSE [IdleCall EXCEPT !.pc = "raised", !.thrown = OutOfRetries(NullError)]

ProxyCall(q) ==
    /\ call[q].pc = "idle"
    /\ call' = [call EXCEPT ![q] = EnteredCall]
    /\ UNCHANGED <<script, anvilVars, runVars, callVars>>

\* One iteration of the while loop, from the request to the next suspension
ProxyAttempt(q) ==
    /\ call[q].pc = "request"
    /\ LET c == call[q]
           resp == script[q][c.requests + 1]
           t == TryBody(q, resp)
           last == CaughtError(c.lastError, t.error)
           att == c.attempt + 1
           sent == [c EXCEPT !.requests = c.requests + 1]
       IN call' = [call EXCEPT ![q] =
            IF ~t.threw
              THEN [sent EXCEPT !.pc = "returned", !.returned = t.value]
            ELSE IF NonRetriable(t.error)
              THEN [sent EXCEPT !.pc = "raised", !.attempt = att,
                                !.lastError = last,
                                !.thrown = OutOfRetries(last)]
            ELSE IF att < ETHERSCAN_MAX_RETRIES
              THEN [sent EXCEPT !.pc = "backoff", !.attempt = att,
                                !.lastError = last,
                                !.delays = Append(c.delays, BackoffDelay(att))]
            ELSE [sent EXCEPT !.pc = "raised", !.attempt = att,
                              !.lastError = last,
                              !.thrown = OutOfRetries(last)]]
    /\ UNCHANGED <<script, anvilVars, runVars, callVars>>

\* delay(delayMs) resolves: back to the loop test
ProxyBackoffDone(q) ==
    /\ call[q].pc = "backoff"
    /\ call' = [call EXCEPT ![q] =
          IF call[q].attempt < ETHERSCAN_MAX_RETRIES
            THEN [call[q] EXCEPT !.pc = "request"]
            ELSE [call[q] EXCEPT !.pc = "raised",
                                 !.thrown = OutOfRetries(call[q].lastError)]]
    /\ UNCHANGED <<script, anvilVars, runVars, callVars>>

-----------------------------------------------------------------------------
(* EtherscanClient.getTransactionData *)

\* The transactions the service knows, by the id its `result` carries.
\* blockNumber is the hex quantity after "0x", digit by digit.
Transaction(id) ==
    CASE id = "txA" -> [blockNumber |-> <<6, 4>>, from |-> "0xSender",
                        to |-> "0xRecipient"]
      [] id = "txB" -> [blockNumber |-> <<6, 5>>, from |-> "0xSender",
                        to |-> "null"]
      [] id = "txC" -> [blockNumber |-> <<1, 0, 0>>, from |-> "0xSender",
                        to |-> "0xSender"]
      [] OTHER -> [blockNumber |-> <<>>, from |-> "null", to |-> "null"]

\* parseInt(hex, 16) on the digits after the prefix
RECURSIVE ParseIntHex(_)
ParseIntHex(digits) ==
    IF digits = <<>> THEN 0
    ELSE 16 * ParseIntHex(SubSeq(digits, 1, Len(digits) - 1))
         + digits[Len(digits)]

\* JavaScript truthiness of error.type
HasType(error) == error.type \notin {"undefined", "null"}

\* a catch block that wraps every error
SurfaceWrapped(error) ==
    createEtherscanError(
        <<"Failed", "to", "fetch", "transaction", "data:">> \o error.message)

\* catch (error): a ForkTraceError is rethrown, anything else is wrapped
Surface(error) ==
    IF HasType(error) THEN error
    ELSE createEtherscanError(
        <<"Failed", "to", "fetch", "transaction", "data:">> \o error.message)

\* a block lookup at a fixed tag
BlockTagLatest(tx) == <<>>

\* getBlock(transaction.blockNumber)
BlockTagOf(tx) == Transaction(tx).blockNumber

IdleFetch ==
    [pc |-> "idle", thrown |-> NullError, failed |-> "none",
     blockTag |-> <<>>, blockNumber |-> 0]

\* getTransactionData(txHash): both lookups are started, then awaited
FetchEntry ==
    /\ fetch.pc = "idle"
    /\ call' = [call EXCEPT !["tx"] = EnteredCall, !["receipt"] = EnteredCall]
    /\ fetch' = [fetch EXCEPT !.pc = "awaitBoth"]
    /\ UNCHANGED <<script, anvilVars, runVars, replay, sd, sm>>

Rejected(q) == call[q].pc = "raised"

\* a promise that getTransactionData awaits has settled; its continuation
\* runs before any further network event is handled
PendingSettle ==
    \/ /\ fetch.pc = "awaitBoth"
       /\ \/ Rejected("tx") \/ Rejected("receipt")
          \/ call["tx"].pc = "returned" /\ call["receipt"].pc = "returned"
    \/ /\ fetch.pc = "awaitBlock"
       /\ call["block"].pc \in {"returned", "raised"}

\* Promise.all settles: on the first rejection the catch block runs; when
\* both have resolved the block lookup is started
FetchBothSettled ==
    /\ fetch.pc = "awaitBoth"
    /\ PendingSettle
    /\ IF Rejected("tx") \/ Rejected("receipt")
         THEN LET q == IF Rejected("tx") THEN "tx" ELSE "receipt"
              IN /\ fetch' = [fetch EXCEPT !.pc = "raised", !.failed = q,
                                           !.thrown = Surface(call[q].thrown)]
                 /\ UNCHANGED call
       ELSE IF call["tx"].returned = "null"
         THEN /\ fetch' = [fetch EXCEPT !.pc = "raised", !.failed = "tx",
                    !.thrown = Surface(createEtherscanError(
                                   <<"Transaction", "not", "found">>))]
              /\ UNCHANGED call
       ELSE IF call["receipt"].returned = "null"
         THEN /\ fetch' = [fetch EXCEPT !.pc = "raised", !.failed = "receipt",
                    !.thrown = Surface(createEtherscanError(
                                   <<"Transaction", "receipt", "not", "found">>))]
              /\ UNCHANGED call
       ELSE /\ fetch' = [fetch EXCEPT !.pc = "awaitBlock",
                             !.blockTag = BlockTagOf(call["tx"].returned)]
            /\ call' = [call EXCEPT !["block"] = EnteredCall]
    /\ UNCHANGED <<script, anvilVars, runVars, replay, sd, sm>>

\* the block lookup settles: the bundle is returned, or the catch block runs
FetchBlockSettled ==
    /\ fetch.pc = "awaitBlock"
    /\ PendingSettle
    /\ fetch' =
         IF Rejected("block")
           THEN [fetch EXCEPT !.pc = "raised", !.failed = "block",
                              !.thrown = Surface(call["block"].thrown)]
         ELSE IF call["block"].returned = "null"
           THEN [fetch EXCEPT !.pc = "raised", !.failed = "block",
                    !.thrown = Surface(createEtherscanError(
                                   <<"Block", "not", "found">>))]
         ELSE [fetch EXCEPT !.pc = "returned",
                  !.blockNumber =
                      ParseIntHex(Transaction(call["tx"].returned).blockNumber)]
    /\ UNCHANGED <<script, call, anvilVars, runVars, replay, sd, sm>>

\* a network event of one of the lookups is handled
FetchRequest ==
    /\ ~PendingSettle
    /\ \E q \in Queries : ProxyAttempt(q)

FetchBackoff ==
    /\ ~PendingSettle
    /\ \E q \in Queries : ProxyBackoffDone(q)

-----------------------------------------------------------------------------
(* TransactionReplayer.replayTransaction (src/modules/transaction-replayer.js).
   Objects are functions from their keys; the fork's provider and the wallet
   are the environment `env`: what getTransaction, sendTransaction and wait
   do. *)

\* what `if (x)`, `x || y` and filter(Boolean) take to be false
Falsy(x) == x \in {"null", "undefined", ""}

\* provider.getTransaction(txHash) on the fork: the original transaction
OriginalTx(id) ==
    [hash |-> id, from |-> Transaction(id).from, to |-> Transaction(id).to,
     value |-> "1000000000000000000", data |-> "0xa9059cbb",
     gasLimit |-> "21000", gasPrice |-> "20000000000", nonce |-> "7"]

\* { ...base, ...over }: the keys of both, `over` winning
Spread(base, over) ==
    [k \in DOMAIN base \cup DOMAIN over |->
        IF k \in DOMAIN over THEN over[k] ELSE base[k]]

\* a merge in which the original transaction wins over the modifications
ModifiedTxOriginalWins(originalTx, modifications) ==
    Spread(modifications,
           [k \in {"to", "value", "data", "gasLimit", "gasPrice"} |->
               originalTx[k]])

\* const modifiedTx = { to, value, data, gasLimit, gasPrice, ...modifications }
ModifiedTx(originalTx, modifications) ==
    Spread([k \in {"to", "value", "data", "gasLimit", "gasPrice"} |->
               originalTx[k]],
           modifications)

\* a transaction receipt with the given status
Receipt(status) ==
    [status |-> status, gasUsed |-> "21000", hash |-> "0xReplayed",
     blockNumber |-> "next"]

NoReceipt ==
    [status |-> "undefined", gasUsed |-> "undefined", hash |-> "undefined",
     blockNumber |-> "undefined"]

\* an error of the provider or the wallet; one that reports a revert carries
\* the receipt, and perhaps a reason
ReplayFailure(hasReceipt, reason) ==
    [type |-> "undefined", message |-> <<"transaction", "failed">>,
     hasReceipt |-> hasReceipt,
     receipt |-> IF hasReceipt THEN Receipt("0") ELSE NoReceipt,
     reason |-> reason]

\* reading a property of null
TypeError ==
    [type |-> "undefined",
     message |-> <<"Cannot", "read", "properties", "of", "null">>,
     hasReceipt |-> FALSE, receipt |-> NoReceipt, reason |-> "undefined"]

NoFailure ==
    [type |-> "null", message |-> <<>>, hasReceipt |-> FALSE,
     receipt |-> NoReceipt, reason |-> "undefined"]

NoOutcome ==
    [status |-> "none", gasUsed |-> "undefined",
     transactionHash |-> "undefined", blockNumber |-> "undefined",
     revertReason |-> "undefined", error |-> "absent"]

IdleReplay ==
    [pc |-> "idle", env |-> <<>>, txHash |-> "none", originalTx |-> <<>>,
     modifications |-> <<>>,
     sent |-> FALSE, submitted |-> <<>>, result |-> NoOutcome,
     thrown |-> NoFailure]

\* the environments: the lookup finds the transaction, finds nothing or
\* fails; the submission resolves or is rejected; the wait returns a receipt
\* or is rejected
Reasons == {"undefined", "", "ERC20: insufficient balance"}

ReplayEnvs ==
    { [lookup |-> l, send |-> "none", wait |-> "none", failure |-> NoFailure,
       receipt |-> NoReceipt] : l \in {"null", "rejects"} }
    \cup
    { [lookup |-> "found", send |-> "rejects", wait |-> "none",
       failure |-> ReplayFailure(h, r), receipt |-> NoReceipt] :
         h \in BOOLEAN, r \in Reasons }
    \cup
    { [lookup |-> "found", send |-> "resolves", wait |-> "rejects",
       failure |-> ReplayFailure(h, r), receipt |-> NoReceipt] :
         h \in BOOLEAN, r \in Reasons }
    \cup
    { [lookup |-> "found", send |-> "resolves", wait |-> "resolves",
       failure |-> NoFailure, receipt |-> Receipt(s)] :
         s \in {"1", "0", "null"} }

\* the return statement of the try block; the receipts of the provider
\* (ethers 6) name their transaction `hash` and have no `transactionHash`
Mined(receipt) ==
    [status |-> IF receipt.status = "1" THEN "success" ELSE "failed",
     gasUsed |-> receipt.gasUsed,
     transactionHash |-> "undefined",
     blockNumber |-> receipt.blockNumber,
     revertReason |-> IF receipt.status = "0" THEN "Transaction reverted"
                                               ELSE "null",
     error |-> "absent"]

\* the return statement of the catch block
Reverted(error) ==
    [status |-> "failed",
     gasUsed |-> error.receipt.gasUsed,
     transactionHash |-> error.receipt.hash,
     blockNumber |-> error.receipt.blockNumber,
     revertReason |-> IF Falsy(error.reason)
                        THEN "Transaction execution reverted"
                        ELSE error.reason,
     error |-> "shortMessage"]

\* a catch block that reports every failure as a revert
CatchAlwaysReverted(activation, error) ==
    [activation EXCEPT !.pc = "returned", !.result = Reverted(error)]

\* a catch block that rethrows every failure
CatchAlwaysRaises(activation, error) ==
    [activation EXCEPT !.pc = "raised", !.thrown = error]

\* catch (error) { if (error.receipt) return {...}; throw error; }
Catch(activation, error) ==
    IF error.hasReceipt
      THEN [activation EXCEPT !.pc = "returned", !.result = Reverted(error)]
      ELSE [activation EXCEPT !.pc = "raised", !.thrown = error]

\* replayTransaction(txHash, modifications) in environment env
replayTransaction(env, txHash, modifications) ==
    LET entered == [IdleReplay EXCEPT !.env = env, !.txHash = txHash,
                                      !.modifications = modifications]
        looked == [entered EXCEPT !.originalTx = OriginalTx(txHash)]
        submitted == [looked EXCEPT
                        !.sent = TRUE,
                        !.submitted = ModifiedTx(OriginalTx(txHash),
                                                 modifications)]
    IN CASE env.lookup = "rejects" -> Catch(entered, ReplayFailure(FALSE, "undefined"))
         [] env.lookup = "null" -> Catch(entered, TypeError)
         [] env.send = "rejects" -> Catch(submitted, env.failure)
         [] env.wait = "rejects" -> Catch(submitted, env.failure)
         [] OTHER -> [submitted EXCEPT !.pc = "returned",
                                       !.result = Mined(env.receipt)]

-----------------------------------------------------------------------------
(* runForkTrace (src/index.js) *)

\* "0x" and sixty-four a's
SomeHash ==
    [isString |-> TRUE,
     runs |-> <<[ch |-> "0", n |-> 1], [ch |-> "x", n |-> 1],
                [ch |-> "a", n |-> HashBodyLength]>>]

NoOptions ==
    [txHash |-> SomeHash, ai |-> FALSE, saveState |-> FALSE, export |-> FALSE,
     modifications |-> <<>>]

NoTxData == [transaction |-> Transaction("none"), blockNumber |-> 0]

\* let aiAnalysis = null
NoAnalysis ==
    [isNull |-> TRUE, available |-> FALSE, model |-> "null", analysis |-> <<>>,
     status |-> "none"]

\* AIExplainer._getFallbackAnalysis(traceData): the status line compares
\* traceData.status with the number 1 (a number is written as its digits:
\* "1"), so a status that is a string of letters is never equal to it
getFallbackAnalysis(traceData) ==
    [isNull |-> FALSE, available |-> FALSE, model |-> "fallback",
     analysis |-> <<"Transaction", "Analysis", "(AI", "Unavailable):">>,
     status |-> IF traceData.status = "1" THEN "SUCCESS" ELSE "FAILED"]

\* AIExplainer.analyzeTrace: the answer of the model, or, when the call to
\* the AI service fails or its answer has no text, the fallback analysis
analyzeTrace(outcome, traceData) ==
    IF outcome = "answers"
      THEN [isNull |-> FALSE, available |-> TRUE, model |-> "llama3.2",
            analysis |-> <<"response">>, status |-> "none"]
      ELSE getFallbackAnalysis(traceData)

\* aiAnalysis = { available: false, analysis: 'AI analysis failed: ' + ... }
FailedAnalysis ==
    [isNull |-> FALSE, available |-> FALSE, model |-> "undefined",
     analysis |-> <<"AI", "analysis", "failed:">>, status |-> "none"]

\* the JavaScript type of each field of an entry of diff's result:
\* BigInt(..) - BigInt(..) is a bigint, a.nonce - b.nonce a number,
\* bal.toString() a string
TypeOfDiffEntry ==
    [balanceChange |-> "bigint", nonceChange |-> "number",
     codeChanged |-> "boolean", balance |-> "string", nonce |-> "number",
     codeSize |-> "number", codeHash |-> "string", address |-> "string"]

\* a serialisation that turns the nonce delta into a string as well
SerialisedTypesAllStrings ==
    [TypeOfDiffEntry EXCEPT !.balanceChange = "string",
                            !.nonceChange = "string"]

\* { ...changes, balanceChange: changes.balanceChange?.toString() }: types
SerialisedTypes == [TypeOfDiffEntry EXCEPT !.balanceChange = "string"]

\* { ...changes, balanceChange: changes.balanceChange?.toString() }: values
Serialised(changes) ==
    [changes EXCEPT !.balanceChange = BigToString(changes.balanceChange)]

\* before Step 8 nothing has been handed to the exporter
NoExportData == [built |-> FALSE, stateDiff |-> <<>>, typeof |-> TypeOfDiffEntry]

\* before the call: `anvil` is null, nothing has been invoked
IdleRun ==
    [pc |-> "idle", anvil |-> FALSE, error |-> "none", log |-> <<>>,
     thrown |-> NullError, tx |-> "none", txData |-> NoTxData,
     forkBlock |-> 0, aiAnalysis |-> NoAnalysis, exportData |-> NoExportData]

\* an error of a stage the model does not look into
StageError(stage) == [type |-> "undefined", message |-> <<stage, "failed">>]

\* the transactions a hash may name
TxHashes == {"txA", "txB", "txC"}

\* a fork started at the block of the transaction itself
ForkBlockAtTx(txData) == txData.blockNumber

\* const forkBlock = Number(txData.blockNumber) - 1
ForkBlockOf(txData) == txData.blockNumber - 1

\* the chain the fork's provider serves: the blocks around each transaction
ForkTags ==
    UNION { {ParseIntHex(Transaction(id).blockNumber) - 1,
             ParseIntHex(Transaction(id).blockNumber),
             ParseIntHex(Transaction(id).blockNumber) + 1} : id \in TxHashes }

ForkChain ==
    [tag \in ForkTags |->
        [addr \in {"0xSender", "0xRecipient"} |->
            IF addr = "0xSender"
              THEN [balance |-> MakeBig(FALSE, <<0, 0, 0, 1 + (tag % 2)>>),
                    nonce |-> 7 + (tag % 2), code |-> <<>>]
              ELSE [balance |-> MakeBig(FALSE, <<0, 0, 0, 5 - (tag % 2)>>),
                    nonce |-> 1, code |-> <<96, 128>>]]]

\* [from, to].filter(Boolean)
FilterBoolean(list) == SelectSeq(list, LAMBDA x : ~Falsy(x))

\* the awaited stages between start() and the cleanup, in program order
Stages == <<"connect", "replay", "diff", "ai", "save", "export">>

\* an orchestrator without the inner try/catch of Step 6
SwallowedNothing(stage) == FALSE

\* a run that goes from any stage straight to Step 9
AfterSkipsToCleanup(k) == "cleanup"

\* if (opts.ai) ..., if (opts.saveState) ..., if (opts.export) ...
Requested(stage) ==
    CASE stage = "ai" -> opts.ai
      [] stage = "save" -> opts.saveState
      [] stage = "export" -> opts.export
      [] OTHER -> TRUE

\* the position after stage number k: the next requested stage, or Step 9
RECURSIVE After(_)
After(k) ==
    IF k >= Len(Stages) THEN "cleanup"
    ELSE IF Requested(Stages[k + 1]) THEN Stages[k + 1]
    ELSE After(k + 1)

StageIndex(stage) == CHOOSE k \in 1..Len(Stages) : Stages[k] = stage

\* the inner try/catch of Step 6 turns an AI failure into a fallback payload
Swallowed(stage) == stage = "ai"

\* a catch block that does not clean up
CleanupNever == FALSE

\* catch (error) { if (anvil) { ... kill ... } }
CleanupNeeded == run.anvil

\* runForkTrace(opts) is called: the hash is validated outside the try
RunValidate ==
    /\ run.pc = "idle"
    /\ run' = IF validateTransactionHash(opts.txHash)
                THEN [run EXCEPT !.pc = "fetch",
                                 !.log = Append(run.log, "validate")]
                ELSE [run EXCEPT !.pc = "raised", !.error = "validate",
                                 !.log = Append(run.log, "validate"),
                                 !.thrown = createReplayError(
                                     <<"Invalid", "transaction", "hash:">>
                                     \o HashText(opts.txHash))]
    /\ UNCHANGED <<proxyVars, anvilVars, opts, cli, callVars>>

\* Step 1: the API key, then the transaction bundle; either may raise
RunFetch ==
    /\ run.pc = "fetch"
    /\ \E outcome \in {"keyRaises", "fetchRaises"} \cup TxHashes :
          run' = CASE outcome = "keyRaises" ->
                        [run EXCEPT !.pc = "catch", !.error = "apiKey",
                                    !.thrown = StageError("apiKey"),
                                    !.log = Append(run.log, "apiKey")]
                   [] outcome = "fetchRaises" ->
                        [run EXCEPT !.pc = "catch", !.error = "fetch",
                                    !.thrown = StageError("fetch"),
                                    !.log = run.log \o <<"apiKey", "fetch">>]
                   [] OTHER ->
                        [run EXCEPT
                           !.pc = "startFork",
                           !.tx = outcome,
                           !.txData =
                              [transaction |-> Transaction(outcome),
                               blockNumber |->
                                  ParseIntHex(Transaction(outcome).blockNumber)],
                           !.log = run.log \o <<"apiKey", "fetch">>]
    /\ UNCHANGED <<proxyVars, anvilVars, opts, cli, callVars>>

\* Step 2: anvil = new AnvilManager(port); await anvil.start([...])
RunStartFork ==
    /\ run.pc = "startFork"
    /\ StartEntry
    /\ run' = [run EXCEPT !.pc = "awaitStart", !.anvil = TRUE,
                          !.forkBlock = ForkBlockOf(run.txData),
                          !.log = Append(run.log, "start")]
    /\ UNCHANGED <<proxyVars, opts, cli, callVars>>

\* start() has settled: go on to Step 3, or enter the catch block
RunStartSettled ==
    /\ run.pc = "awaitStart"
    /\ startCall.pc \in {"returned", "raised"}
    /\ run' = IF startCall.pc = "returned"
                THEN [run EXCEPT !.pc = After(0)]
                ELSE [run EXCEPT !.pc = "catch", !.error = "start",
                                 !.thrown = startCall.error]
    /\ UNCHANGED <<proxyVars, anvilVars, opts, cli, callVars>>

\* Steps 3 and 7: one awaited stage returns or raises
RunStage ==
    /\ run.pc \in {"connect", "save"}
    /\ \E ok \in BOOLEAN :
          run' = IF ok \/ Swallowed(run.pc)
                   THEN [run EXCEPT !.pc = After(StageIndex(run.pc)),
                                    !.log = Append(run.log, run.pc)]
                   ELSE [run EXCEPT !.pc = "catch", !.error = run.pc,
                                    !.thrown = StageError(run.pc),
                                    !.log = Append(run.log, run.pc)]
    /\ UNCHANGED <<proxyVars, anvilVars, opts, cli, callVars>>

\* Step 4: await replayer.replayTransaction(txHash, opts.modifications || {})
RunReplay ==
    /\ run.pc = "replay"
    /\ \E env \in ReplayEnvs :
          replay' = replayTransaction(env, run.tx, opts.modifications)
    /\ run' = IF replay'.pc = "returned"
                THEN [run EXCEPT !.pc = After(StageIndex("replay")),
                                 !.log = Append(run.log, "replay")]
                ELSE [run EXCEPT !.pc = "catch", !.error = "replay",
                                 !.thrown = replay'.thrown,
                                 !.log = Append(run.log, "replay")]
    /\ UNCHANGED <<proxyVars, anvilVars, opts, cli, fetch, sd, sm>>

\* Step 5: await stateDiff.diff(forkBlock, forkBlock + 1,
\*                              [from, to].filter(Boolean))
RunDiff ==
    /\ run.pc = "diff"
    /\ LET addresses == FilterBoolean(<<run.txData.transaction.from,
                                        run.txData.transaction.to>>)
           entered == [pc |-> "raised", chain |-> ForkChain,
                       fromBlockTag |-> run.forkBlock,
                       toBlockTag |-> run.forkBlock + 1,
                       addresses |-> addresses, result |-> <<>>]
       IN \E ok \in BOOLEAN :
             IF ok
               THEN /\ sd' = [entered EXCEPT
                                !.pc = "returned",
                                !.result = diff(ForkChain, run.forkBlock,
                                                run.forkBlock + 1, addresses)]
                    /\ run' = [run EXCEPT !.pc = After(StageIndex("diff")),
                                          !.log = Append(run.log, "diff")]
               ELSE /\ sd' = entered
                    /\ run' = [run EXCEPT !.pc = "catch", !.error = "diff",
                                          !.thrown = StageError("diff"),
                                          !.log = Append(run.log, "diff")]
    /\ UNCHANGED <<proxyVars, anvilVars, opts, cli, fetch, replay, sm>>

\* Step 6: new AIExplainer(...), await ai.analyzeTrace(replayResult), inside
\* a try block of its own
RunAI ==
    /\ run.pc = "ai"
    /\ \E outcome \in {"answers", "unavailable", "raises"} :
          run' = IF outcome = "raises" /\ ~Swallowed("ai")
                   THEN [run EXCEPT !.pc = "catch", !.error = "ai",
                                    !.thrown = StageError("ai"),
                                    !.log = Append(run.log, "ai")]
                   ELSE [run EXCEPT
                           !.pc = After(StageIndex("ai")),
                           !.log = Append(run.log, "ai"),
                           !.aiAnalysis =
                               IF outcome = "raises" THEN FailedAnalysis
                               ELSE analyzeTrace(outcome, replay.result)]
    /\ UNCHANGED <<proxyVars, anvilVars, opts, cli, callVars>>

\* Step 8: the diff is serialised, then await exporter.export(exportData, ...)
RunExport ==
    /\ run.pc = "export"
    /\ LET exportData ==
              [built |-> TRUE,
               stateDiff |-> [addr \in DOMAIN sd.result |->
                                 Serialised(sd.result[addr])],
               typeof |-> SerialisedTypes]
       IN \E ok \in BOOLEAN :
             run' = IF ok
                      THEN [run EXCEPT !.pc = After(StageIndex("export")),
                                       !.exportData = exportData,
                                       !.log = Append(run.log, "export")]
                      ELSE [run EXCEPT !.pc = "catch", !.error = "export",
                                       !.exportData = exportData,
                                       !.thrown = StageError("export"),
                                       !.log = Append(run.log, "export")]
    /\ UNCHANGED <<proxyVars, anvilVars, opts, cli, callVars>>

\* Step 9: await anvil.kill(); then the summary is returned
RunCleanup ==
    /\ run.pc = "cleanup"
    /\ KillEntry(FALSE)
    /\ run' = IF kills'[Len(kills')].raised
                THEN [run EXCEPT !.pc = "catch", !.error = "kill",
                                 !.thrown = StageError("kill"),
                                 !.log = Append(run.log, "kill")]
                ELSE [run EXCEPT !.pc = "returned",
                                 !.log = Append(run.log, "kill")]
    /\ UNCHANGED <<proxyVars, opts, cli, callVars>>

\* a catch block that raises an error of its own
RethrownAsCleanupError(error, killRaised) == StageError("cleanup")

\* try { await anvil.kill(); } catch (e) { /* ignore */ } throw error;
Rethrown(error, killRaised) == error

\* catch (error): kill the manager if there is one, rethrow the error
RunCatch ==
    /\ run.pc = "catch"
    /\ IF CleanupNeeded
         THEN /\ KillEntry(FALSE)
              /\ run' = [run EXCEPT
                           !.pc = "raised",
                           !.thrown = Rethrown(run.thrown,
                                               kills'[Len(kills')].raised),
                           !.log = Append(run.log, "kill")]
         ELSE /\ run' = [run EXCEPT !.pc = "raised",
                                    !.thrown = Rethrown(run.thrown, FALSE)]
              /\ UNCHANGED anvilVars
    /\ UNCHANGED <<proxyVars, opts, cli, callVars>>

-----------------------------------------------------------------------------
(* bin/fork-trace.js: the action of the command.  exitCode is the code the
   action passed to process.exit; an action that ends without process.exit
   leaves the exit code 0. *)

IdleCli == [pc |-> "idle", exitCode |-> 0, reported |-> "nothing"]

\* a catch block that reports success
CliCatchAllDone(error) ==
    [pc |-> "done", exitCode |-> 0, reported |-> "All done!"]

\* catch (error) { ...; await handleError(error); process.exit(1); }
CliCatch(error) ==
    [pc |-> "exited", exitCode |-> 1, reported |-> "error"]

\* the action is entered: the hash is validated before runForkTrace is called
CliAction ==
    /\ cli.pc = "idle"
    /\ cli' = IF ~validateTransactionHash(opts.txHash)
                THEN [pc |-> "exited", exitCode |-> 1,
                      reported |-> "Invalid transaction hash format"]
                ELSE [cli EXCEPT !.pc = "awaiting"]
    /\ UNCHANGED <<proxyVars, anvilVars, opts, run, callVars>>

\* await runForkTrace(opts) settles
CliSettled ==
    /\ cli.pc = "awaiting"
    /\ run.pc \in {"returned", "raised"}
    /\ cli' = IF run.pc = "returned"
                THEN [pc |-> "done", exitCode |-> 0, reported |-> "All done!"]
                ELSE CliCatch(run.thrown)
    /\ UNCHANGED <<proxyVars, anvilVars, opts, run, callVars>>

-----------------------------------------------------------------------------
(* Activations that a specification does not exercise stay idle *)

-----------------------------------------------------------------------------
(* StateManager: state files in the state directory                        *)

\* a bound on the calls made on one manager, and on the clock's milliseconds
MaxStateCalls == 3
MaxClock == 2

\* `${stateName}-${timestamp}.json`: the timestamp is the ISO time of the
\* clock, to the millisecond, with ':' and '.' replaced
TimestampOf(clock) == <<DigitChars[clock + 1], "Z">>

Filename(stateName, clock) ==
    stateName \o <<"-">> \o TimestampOf(clock) \o <<".json">>

\* file.replace('.json', '')
RECURSIVE ReplaceFirst(_, _)
ReplaceFirst(text, token) ==
    IF text = <<>> THEN <<>>
    ELSE IF Head(text) = token THEN Tail(text)
    ELSE <<Head(text)>> \o ReplaceFirst(Tail(text), token)

\* String.prototype.includes
Includes(text, part) ==
    \E i \in 0..(Len(text) - Len(part)) :
        SubSeq(text, i + 1, i + Len(part)) = part

\* [a-zA-Z0-9-_], over the characters the names are written with
SafeClass == HexClass \cup {"-", "_"}

\* checkpointName.replace(/[^a-zA-Z0-9-_]/g, '_')
Sanitize(checkpointName) ==
    [i \in 1..Len(checkpointName) |->
        IF checkpointName[i] \in SafeClass THEN checkpointName[i] ELSE "_"]

\* this.maxStates = options.maxStates || 10
MaxStatesOf(options) == IF options.maxStates = 0 THEN 10 ELSE options.maxStates

\* the record of a call: the file written or read, the error raised, the
\* directory as the call listed it and the files it deleted
NoStateCall ==
    [op |-> "none", arg |-> <<>>, filename |-> <<>>, content |-> 0,
     raised |-> FALSE, error |-> NullError, listed |-> <<>>, deleted |-> {}]

IdleStates ==
    [maxStates |-> 10, birthtime |-> TRUE, clock |-> 0, dir |-> <<>>,
     calls |-> <<>>]

\* stats.birthtime of a file created now: the time of creation, or the
\* epoch on a filesystem that keeps no creation time
BirthtimeAt(clock) == IF sm.birthtime THEN clock + 1 ELSE 0

\* fs.writeFile(filepath, data): a new file is created, an existing one is
\* rewritten and keeps its creation time
WriteFile(dir, filename, content) ==
    [f \in DOMAIN dir \cup {filename} |->
        IF f = filename
          THEN [created |-> IF filename \in DOMAIN dir
                              THEN dir[filename].created
                              ELSE BirthtimeAt(sm.clock),
                content |-> content]
          ELSE dir[f]]

\* the sequences without repetition of the elements of a set
RECURSIVE Orderings(_)
Orderings(S) ==
    IF S = {} THEN {<<>>}
    ELSE UNION {{<<x>> \o rest : rest \in Orderings(S \ {x})} : x \in S}

\* listStates(): the .json files of the directory, as readdir lists them,
\* sorted by (b, a) => b.created - a.created; the sort is stable, so files
\* of one creation time stay in the order of readdir, which is any order
listStates(dir) ==
    { [k \in 1..Len(order) |->
          [name |-> ReplaceFirst(order[k], ".json"), filepath |-> order[k],
           created |-> dir[order[k]].created]] :
      order \in { o \in Orderings(DOMAIN dir) :
                    \A i, j \in 1..Len(o) :
                        i < j => dir[o[i]].created >= dir[o[j]].created } }

\* _cleanupOldStates(): states.slice(this.maxStates) when there are more
\* than maxStates
StatesToDelete(states) ==
    IF Len(states) > sm.maxStates
      THEN {states[k].filepath : k \in (sm.maxStates + 1)..Len(states)}
      ELSE {}

\* saveState(stateName), with the provider's answer to anvil_dumpState
saveState(op, arg, stateName, dump) ==
    LET filename == Filename(stateName, sm.clock)
        content == Len(sm.calls) + 1
        base == [NoStateCall EXCEPT !.op = op, !.arg = arg,
                                    !.listed = sm.dir]
    IN IF dump = "fails"
         THEN sm' = [sm EXCEPT !.calls = Append(@,
                        [base EXCEPT !.raised = TRUE,
                            !.error = createReplayError(
                                <<"Failed", "to", "save", "state:">>)])]
         ELSE LET written == WriteFile(sm.dir, filename, content)
              IN \E states \in listStates(written) :
                   LET deleted == StatesToDelete(states)
                   IN sm' = [sm EXCEPT
                         !.dir = [f \in DOMAIN written \ deleted |-> written[f]],
                         !.calls = Append(@,
                             [base EXCEPT !.filename = filename,
                                          !.content = content,
                                          !.listed = written,
                                          !.deleted = deleted])]

\* `checkpoint_${checkpointName}`, the text restoreCheckpoint looks for
CheckpointNeedle(checkpointName) == <<"checkpoint_">> \o checkpointName

\* restoreCheckpoint(checkpointName), with the provider's answer to
\* anvil_loadState: states.find takes the first state, newest first, whose
\* name includes the text
restoreCheckpoint(checkpointName, load) ==
    \E states \in listStates(sm.dir) :
        LET matching == {k \in 1..Len(states) :
                            Includes(states[k].name,
                                     CheckpointNeedle(checkpointName))}
            base == [NoStateCall EXCEPT !.op = "restoreCheckpoint",
                                        !.arg = checkpointName,
                                        !.listed = sm.dir]
        IN IF matching = {}
             THEN sm' = [sm EXCEPT !.calls = Append(@,
                            [base EXCEPT !.raised = TRUE,
                                !.error = createReplayError(
                                    <<"Checkpoint", "not", "found:">>)])]
             ELSE LET first == CHOOSE k \in matching :
                                   \A j \in matching : k <= j
                      file == states[first].filepath
                  IN sm' = [sm EXCEPT !.calls = Append(@,
                         [base EXCEPT !.filename = file,
                             !.content = sm.dir[file].content,
                             !.raised = load = "fails",
                             !.error = IF load = "fails"
                                 THEN createReplayError(
                                          <<"Failed", "to", "load", "state:">>)
                                 ELSE NullError])]

IdleDiff == [pc |-> "idle"]

InitCalls ==
    /\ fetch = IdleFetch
    /\ replay = IdleReplay
    /\ sd = IdleDiff
    /\ sm = IdleStates

-----------------------------------------------------------------------------
(* One query of the client, against every service behaviour *)

Scripts == [1..ETHERSCAN_MAX_RETRIES -> Responses]

QuietScript == [k \in 1..ETHERSCAN_MAX_RETRIES |->
    [kind |-> "resolve", thrown |-> NullError, status |-> 200,
     hasError |-> FALSE, errorMessage |-> <<>>, result |-> "0xresult"]]

InitProxy ==
    /\ \E s \in Scripts :
          script = [q \in Queries |-> IF q = "tx" THEN s ELSE QuietScript]
    /\ call = [q \in Queries |-> IdleCall]
    /\ InitAnvilManager
    /\ opts = NoOptions
    /\ run = IdleRun
    /\ cli = IdleCli
    /\ InitCalls

NextProxy ==
    \/ ProxyCall("tx")
    \/ ProxyAttempt("tx")
    \/ ProxyBackoffDone("tx")

SpecProxy == InitProxy /\ [][NextProxy]_vars

-----------------------------------------------------------------------------
(* getTransactionData against the service: each lookup gets a script of
   failures ending in a result, a refusal or nothing at all *)

Resolved(r) ==
    [kind |-> "resolve", thrown |-> NullError, status |-> 200,
     hasError |-> FALSE, errorMessage |-> <<>>, result |-> r]

TransportFailure ==
    [kind |-> "reject", thrown |-> AxiosError, status |-> 0,
     hasError |-> FALSE, errorMessage |-> <<>>, result |-> "null"]

BadStatus ==
    [kind |-> "resolve", thrown |-> NullError, status |-> 204,
     hasError |-> FALSE, errorMessage |-> <<>>, result |-> "null"]

\* a script: k failures of one kind, then the final response for the rest
ScriptOf(failure, k, final) ==
    [n \in 1..ETHERSCAN_MAX_RETRIES |-> IF n <= k THEN failure ELSE final]

FetchScripts(results) ==
    { ScriptOf(f, k, Resolved(r)) :
        f \in {TransportFailure, BadStatus}, k \in 0..ETHERSCAN_MAX_RETRIES,
        r \in results \cup {"null"} }

InitFetch ==
    /\ \E st \in FetchScripts({"txA", "txB"}),
          sr \in FetchScripts({"receiptA"}),
          sb \in FetchScripts({"blockA"}) :
          script = [q \in Queries |->
                      CASE q = "tx" -> st [] q = "receipt" -> sr [] OTHER -> sb]
    /\ call = [q \in Queries |-> IdleCall]
    /\ InitAnvilManager
    /\ opts = NoOptions
    /\ run = IdleRun
    /\ cli = IdleCli
    /\ InitCalls

NextFetch ==
    \/ FetchEntry
    \/ FetchRequest
    \/ FetchBackoff
    \/ FetchBothSettled
    \/ FetchBlockSettled

SpecFetch == InitFetch /\ [][NextFetch]_vars

-----------------------------------------------------------------------------
(* replayTransaction for every overrides map and every environment *)

\* one value per key an overrides map may name
OverrideValue ==
    [to |-> "0xOther", value |-> "0", data |-> "0x", gasLimit |-> "500000",
     gasPrice |-> "1", from |-> "0xAttacker", nonce |-> "5"]

AllModifications ==
    { [k \in keys |-> OverrideValue[k]] : keys \in SUBSET DOMAIN OverrideValue }

InitReplay ==
    /\ script = [q \in Queries |-> QuietScript]
    /\ call = [q \in Queries |-> IdleCall]
    /\ InitAnvilManager
    /\ opts = NoOptions
    /\ run = IdleRun
    /\ cli = IdleCli
    /\ fetch = IdleFetch
    /\ sd = IdleDiff
    /\ sm = IdleStates
    /\ \E env \in ReplayEnvs, txHash \in TxHashes,
          modifications \in AllModifications :
          replay = [IdleReplay EXCEPT !.env = env, !.txHash = txHash,
                                      !.modifications = modifications]

\* await replayer.replayTransaction(txHash, modifications)
ReplayCall ==
    /\ replay.pc = "idle"
    /\ replay' = replayTransaction(replay.env, replay.txHash,
                                   replay.modifications)
    /\ UNCHANGED <<proxyVars, anvilVars, runVars, fetch, sd, sm>>

NextReplay == ReplayCall

SpecReplay == InitReplay /\ [][NextReplay]_vars

-----------------------------------------------------------------------------
(* StateDiff.diff over chains of two blocks and two addresses *)

\* a BigInt from its decimal digits, most significant first
FromDecimal(digits) == MakeBig(FALSE, Reverse(digits))

\* 0; 999 wei; one ether, 10^18; 2^64 = 18446744073709551616;
\* 300000000000000000007, beyond 64 bits
Balances ==
    << FromDecimal(<<>>),
       FromDecimal(<<9, 9, 9>>),
       FromDecimal(<<1, 0, 0, 0, 0, 0, 0, 0, 0, 0, 0, 0, 0, 0, 0, 0, 0, 0, 0>>),
       FromDecimal(<<1, 8, 4, 4, 6, 7, 4, 4, 0, 7, 3, 7, 0, 9, 5, 5, 1, 6, 1, 6>>),
       FromDecimal(<<3, 0, 0, 0, 0, 0, 0, 0, 0, 0, 0, 0, 0, 0, 0, 0, 0, 0, 0, 0, 7>>) >>

Accounts ==
    { [balance |-> Balances[1], nonce |-> 0, code |-> EmptyHex],
      [balance |-> Balances[2], nonce |-> 0, code |-> <<96, 128>>],
      [balance |-> Balances[3], nonce |-> 7, code |-> EmptyHex],
      [balance |-> Balances[4], nonce |-> 7, code |-> <<96, 128>>],
      [balance |-> Balances[4], nonce |-> 3, code |-> EmptyHex],
      [balance |-> Balances[5], nonce |-> 8, code |-> <<96, 0, 0>>] }

Addresses == {"0xSender", "0xRecipient"}

AddressLists ==
    { <<"0xSender">>, <<"0xSender", "0xRecipient">>,
      <<"0xRecipient", "0xSender">>, <<"0xSender", "0xSender">> }

InitDiff ==
    /\ script = [q \in Queries |-> QuietScript]
    /\ call = [q \in Queries |-> IdleCall]
    /\ InitAnvilManager
    /\ opts = NoOptions
    /\ run = IdleRun
    /\ cli = IdleCli
    /\ fetch = IdleFetch
    /\ replay = IdleReplay
    /\ sm = IdleStates
    /\ \E chain \in [{99, 100} -> [Addresses -> Accounts]],
          tags \in {<<99, 100>>, <<100, 99>>},
          addresses \in AddressLists :
          sd = [pc |-> "idle", chain |-> chain, fromBlockTag |-> tags[1],
                toBlockTag |-> tags[2], addresses |-> addresses,
                result |-> <<>>]

\* await stateDiff.diff(fromBlockTag, toBlockTag, addresses)
DiffCall ==
    /\ sd.pc = "idle"
    /\ sd' = [sd EXCEPT !.pc = "returned",
                !.result = diff(sd.chain, sd.fromBlockTag, sd.toBlockTag,
                                sd.addresses)]
    /\ UNCHANGED <<proxyVars, anvilVars, runVars, fetch, replay, sm>>

NextDiff == DiffCall

SpecDiff == InitDiff /\ [][NextDiff]_vars

-----------------------------------------------------------------------------
(* captureState, query by query: every provider query is a promise of its  *)
(* own and the queries settle in any order                                 *)

\* the three queries of #getAccountSnapshot's Promise.all, in argument order
QueryKinds == <<"getBalance", "getTransactionCount", "getCode">>

\* what the provider answers to one query at a block tag
ProviderAnswer(chain, kind, address, blockTag) ==
    LET acct == chain[blockTag][address]
    IN CASE kind = "getBalance" -> acct.balance
         [] kind = "getTransactionCount" -> acct.nonce
         [] kind = "getCode" -> acct.code

\* a Promise.all that files a value under the number of values it has
\* already received
ResolvedIndexByArrival(index, arrived) == arrived + 1

\* Promise.all files each value under the index of its promise in the
\* argument array, whenever it arrives
ResolvedIndex(index, arrived) == index

\* the object #getAccountSnapshot builds from [bal, nonce, code]
AccountSnapshot(address, bal, nonce, code) ==
    [address |-> address,
     balance |-> BigToString(bal),
     nonce |-> nonce,
     codeHash |-> IF code = EmptyHex THEN EmptyHex ELSE keccak256(code),
     codeSize |-> Len(code)]

\* Object.fromEntries(snapshots.map(snap => [snap.address, snap])): the
\* last entry of a repeated key stays
FromEntries(snapshots) ==
    [addr \in {snapshots[k].address : k \in 1..Len(snapshots)} |->
        LET last == CHOOSE k \in 1..Len(snapshots) :
                        /\ snapshots[k].address = addr
                        /\ \A j \in (k + 1)..Len(snapshots) :
                              snapshots[j].address # addr
        IN snapshots[last]]

CaptureAccounts ==
    { [balance |-> Balances[2], nonce |-> 0, code |-> EmptyHex],
      [balance |-> Balances[4], nonce |-> 7, code |-> <<96, 128>>],
      [balance |-> Balances[5], nonce |-> 8, code |-> <<96, 0, 0>>] }

InitCapture ==
    /\ script = [q \in Queries |-> QuietScript]
    /\ call = [q \in Queries |-> IdleCall]
    /\ InitAnvilManager
    /\ opts = NoOptions
    /\ run = IdleRun
    /\ cli = IdleCli
    /\ fetch = IdleFetch
    /\ replay = IdleReplay
    /\ sm = IdleStates
    /\ \E chain \in [{99, 100} -> [Addresses -> CaptureAccounts]],
          blockTag \in {99, 100},
          addresses \in AddressLists :
          sd = [pc |-> "idle", chain |-> chain, blockTag |-> blockTag,
                addresses |-> addresses, pending |-> {}, first |-> <<>>,
                values |-> <<>>, result |-> <<>>]

\* captureState(blockTag, addresses) up to its await: addresses.map starts
\* #getAccountSnapshot for every address, each starts its three queries
CaptureEntry ==
    /\ sd.pc = "idle"
    /\ sd' = [sd EXCEPT !.pc = "awaiting",
                !.pending = (1..Len(sd.addresses)) \X (1..3),
                !.values = [k \in 1..Len(sd.addresses) |->
                               [i \in 1..3 |-> "unsettled"]]]
    /\ UNCHANGED <<proxyVars, anvilVars, runVars, fetch, replay, sm>>

\* one provider query settles: its value is the i-th of [bal, nonce, code]
\* in the snapshot whose promise is filed in the outer Promise.all
QueryComplete ==
    /\ sd.pc = "awaiting"
    /\ \E q \in sd.pending :
          LET k == q[1]
              i == q[2]
              arrivedOfKind == Cardinality({j \in 1..Len(sd.addresses) :
                                              <<j, i>> \notin sd.pending})
              slot == ResolvedIndex(k, arrivedOfKind)
              answer == ProviderAnswer(sd.chain, QueryKinds[i],
                                       sd.addresses[k], sd.blockTag)
          IN sd' = [sd EXCEPT !.pending = @ \ {q},
                      !.first = IF @ = <<>> THEN q ELSE @,
                      !.values[slot][i] = answer]
    /\ UNCHANGED <<proxyVars, anvilVars, runVars, fetch, replay, sm>>

\* every promise has settled: the snapshots are built and keyed by address
CaptureSettle ==
    /\ sd.pc = "awaiting"
    /\ sd.pending = {}
    /\ LET snapshots == [k \in 1..Len(sd.addresses) |->
                            AccountSnapshot(sd.addresses[k], sd.values[k][1],
                                            sd.values[k][2], sd.values[k][3])]
       IN sd' = [sd EXCEPT !.pc = "captured",
                   !.result = FromEntries(snapshots)]
    /\ UNCHANGED <<proxyVars, anvilVars, runVars, fetch, replay, sm>>

NextCapture == CaptureEntry \/ QueryComplete \/ CaptureSettle

SpecCapture == InitCapture /\ [][NextCapture]_vars

-----------------------------------------------------------------------------
(* A StateManager under the calls of its user                              *)

\* the names checkpoints are made and restored under: one is the beginning
\* of another, and one has a character that createCheckpoint replaces
CheckpointNames == { <<"a">>, <<"a", "b">>, <<"a", " ">> }

\* new StateManager(provider, options): maxStates given, or left out (0)
InitState ==
    /\ script = [q \in Queries |-> QuietScript]
    /\ call = [q \in Queries |-> IdleCall]
    /\ InitAnvilManager
    /\ opts = NoOptions
    /\ run = IdleRun
    /\ cli = IdleCli
    /\ fetch = IdleFetch
    /\ replay = IdleReplay
    /\ sd = IdleDiff
    /\ \E options \in [maxStates : {0, 1, 2}], birthtime \in BOOLEAN :
          sm = [IdleStates EXCEPT !.maxStates = MaxStatesOf(options),
                                  !.birthtime = birthtime]

\* await stateManager.saveState(stateName)
SaveStateCall ==
    /\ Len(sm.calls) < MaxStateCalls
    /\ \E dump \in {"ok", "fails"} :
          saveState("saveState", <<"a">>, <<"a">>, dump)
    /\ UNCHANGED <<proxyVars, anvilVars, runVars, fetch, replay, sd>>

\* await stateManager.createCheckpoint(checkpointName)
CreateCheckpointCall ==
    /\ Len(sm.calls) < MaxStateCalls
    /\ \E checkpointName \in CheckpointNames, dump \in {"ok", "fails"} :
          saveState("createCheckpoint", checkpointName,
                    <<"checkpoint_">> \o Sanitize(checkpointName), dump)
    /\ UNCHANGED <<proxyVars, anvilVars, runVars, fetch, replay, sd>>

\* await stateManager.restoreCheckpoint(checkpointName)
RestoreCheckpointCall ==
    /\ Len(sm.calls) < MaxStateCalls
    /\ \E checkpointName \in CheckpointNames, load \in {"ok", "fails"} :
          restoreCheckpoint(checkpointName, load)
    /\ UNCHANGED <<proxyVars, anvilVars, runVars, fetch, replay, sd>>

\* a millisecond passes
ClockTick ==
    /\ sm.clock < MaxClock
    /\ sm' = [sm EXCEPT !.clock = @ + 1]
    /\ UNCHANGED <<proxyVars, anvilVars, runVars, fetch, replay, sd>>

NextState ==
    \/ SaveStateCall
    \/ CreateCheckpointCall
    \/ RestoreCheckpointCall
    \/ ClockTick

SpecState == InitState /\ [][NextState]_vars

-----------------------------------------------------------------------------
(* The fork process manager, called from any state *)

\* another process (an anvil left over from an earlier run, say) binds the
\* port while the spawned process does not hold it
ForeignListen ==
    /\ port = "free"
    /\ ~child.listening
    /\ port' = "foreign"
    /\ UNCHANGED <<script, call, process, proc, _killed, child, signals,
                   startCall, starts, kills, runVars, callVars>>

InitAnvil ==
    /\ script = [q \in Queries |-> QuietScript]
    /\ call = [q \in Queries |-> IdleCall]
    /\ InitAnvilManager
    /\ opts = NoOptions
    /\ run = IdleRun
    /\ cli = IdleCli
    /\ InitCalls

NextAnvil ==
    \/ EnvStart
    \/ EnvKill
    \/ ProbeResult
    \/ SleepDone
    \/ ChildListen
    \/ ChildExit
    \/ ForeignListen

SpecAnvil == InitAnvil /\ [][NextAnvil]_vars

\* the awaited fetch settles and the timer of the delay fires
SpecAnvilFair ==
    SpecAnvil /\ WF_vars(ProbeResult) /\ WF_vars(SleepDone)

-----------------------------------------------------------------------------
(* One run of the orchestrator, for every choice of options *)

\* a string of the given runs of characters
HashString(runs) ==
    [isString |-> TRUE,
     runs |-> [k \in 1..Len(runs) |-> [ch |-> runs[k][1], n |-> runs[k][2]]]]

\* two hashes of the right form; then one too short, one too long, one with
\* a character that is no hexadecimal digit, 0X for 0x, no prefix, a trailing
\* newline, a leading blank, the empty string, and a value that is no string
HashArguments ==
    { SomeHash,
      HashString(<<<<"0", 1>>, <<"x", 1>>, <<"F", 32>>, <<"9", 32>>>>),
      HashString(<<<<"0", 1>>, <<"x", 1>>, <<"a", 63>>>>),
      HashString(<<<<"0", 1>>, <<"x", 1>>, <<"a", 65>>>>),
      HashString(<<<<"0", 1>>, <<"x", 1>>, <<"a", 32>>, <<"g", 1>>, <<"a", 31>>>>),
      HashString(<<<<"0", 1>>, <<"X", 1>>, <<"a", 64>>>>),
      HashString(<<<<"a", 64>>>>),
      HashString(<<<<"0", 1>>, <<"x", 1>>, <<"a", 64>>, <<"\n", 1>>>>),
      HashString(<<<<" ", 1>>, <<"0", 1>>, <<"x", 1>>, <<"a", 64>>>>),
      HashString(<<>>),
      [isString |-> FALSE, runs |-> <<>>] }

InitRun ==
    /\ script = [q \in Queries |-> QuietScript]
    /\ call = [q \in Queries |-> IdleCall]
    /\ InitAnvilManager
    /\ opts \in [txHash : HashArguments, ai : BOOLEAN, saveState : BOOLEAN,
                 export : BOOLEAN, modifications : {<<>>, [value |-> "0"]}]
    /\ run = IdleRun
    /\ cli = IdleCli
    /\ InitCalls

NextRun ==
    \/ RunValidate
    \/ RunFetch
    \/ RunStartFork
    \/ ProbeResult
    \/ SleepDone
    \/ ChildListen
    \/ ChildExit
    \/ RunStartSettled
    \/ RunStage
    \/ RunReplay
    \/ RunDiff
    \/ RunAI
    \/ RunExport
    \/ RunCleanup
    \/ RunCatch

SpecRun == InitRun /\ [][NextRun]_vars

-----------------------------------------------------------------------------
(* The command: the action calls runForkTrace and awaits it *)

NextCli ==
    \/ CliAction
    \/ cli.pc = "awaiting" /\ NextRun
    \/ CliSettled

SpecCli == InitRun /\ [][NextCli]_vars

-----------------------------------------------------------------------------
(* Properties of the retry protocol (SpecProxy) *)

Done(q) == call[q].pc \in {"returned", "raised"}

\* the response classes, as the service produced them
Succeeds(resp) ==
    resp.kind = "resolve" /\ resp.status = 200 /\ ~resp.hasError
    /\ resp.result # "null"

NullResult(resp) ==
    resp.kind = "resolve" /\ resp.status = 200 /\ ~resp.hasError
    /\ resp.result = "null"

SignalsRateLimit(m) ==
    \E k \in 1..(Len(m) - 1) :
        m[k] \in {"rate", "Rate"} /\ m[k + 1] \in {"limit", "Limit"}

RetryableFailure(resp) ==
    \/ resp.kind = "reject" /\ resp.thrown.type = "undefined"
    \/ resp.kind = "resolve" /\ resp.status # 200
    \/ resp.kind = "resolve" /\ resp.status = 200 /\ resp.hasError
       /\ SignalsRateLimit(resp.errorMessage)

NonRetryableFailure(resp) ==
    \/ resp.kind = "reject" /\ resp.thrown.type = "VALIDATION_ERROR"
    \/ resp.kind = "resolve" /\ resp.status = 200 /\ resp.hasError
       /\ ~SignalsRateLimit(resp.errorMessage)

StrictlyIncreasing(s) ==
    \A a, b \in 1..Len(s) : a < b => s[a] < s[b]

GenericRetryError == createEtherscanError(<<"Exceeded", "maximum", "retries">>)

\* C7: a query whose first N-1 responses are retryable failures and whose
\* N-th response succeeds issues exactly N requests (N <= maxAttempts) and
\* returns; a query whose every response is a retryable failure issues exactly
\* maxAttempts requests and raises; the back-off delays slept between
\* consecutive attempts are strictly increasing.
C7_RetryableAttempts ==
    \A q \in Queries :
        /\ StrictlyIncreasing(call[q].delays)
        /\ Done(q) =>
            /\ \A n \in 1..ETHERSCAN_MAX_RETRIES :
                 ( /\ \A k \in 1..(n - 1) : RetryableFailure(script[q][k])
                   /\ Succeeds(script[q][n]) )
                 => /\ call[q].requests = n
                    /\ call[q].pc = "returned"
                    /\ Len(call[q].delays) = n - 1
            /\ (\A k \in 1..ETHERSCAN_MAX_RETRIES :
                    RetryableFailure(script[q][k]))
                 => /\ call[q].requests = ETHERSCAN_MAX_RETRIES
                    /\ call[q].pc = "raised"

\* a rate-limit error, then a non-200 status, then a result: three requests
C7_Witness ==
    /\ call["tx"].pc = "returned"
    /\ call["tx"].requests = 3
    /\ Len(call["tx"].delays) = 2
    /\ script["tx"][1].hasError
    /\ script["tx"][2].status = 204

\* C8: once an attempt fails with a non-retryable failure (VALIDATION_ERROR,
\* or an ETHERSCAN_ERROR without a rate-limit message) no further request is
\* issued and that error is raised; on the first attempt: one request, no
\* back-off delay.
C8_NonRetryableStops ==
    \A q \in Queries : \A k \in 1..call[q].requests :
        NonRetryableFailure(script[q][k]) =>
            /\ call[q].requests = k
            /\ call[q].pc = "raised"
            /\ call[q].thrown.type \in {"VALIDATION_ERROR", "ETHERSCAN_ERROR"}
            /\ call[q].thrown = TryBody(q, script[q][k]).error
            /\ (k = 1 => call[q].delays = <<>>)

C8_Witness ==
    /\ call["tx"].pc = "raised"
    /\ call["tx"].requests = 1
    /\ script["tx"][1].hasError
    /\ script["tx"][1].errorMessage = <<"invalid", "argument">>
    /\ call["tx"].thrown.type = "ETHERSCAN_ERROR"

\* C9: `result: null` on the first two attempts and a valid result on the
\* third returns that result after exactly three requests and two back-off
\* delays; only when every attempt yields null is an error raised, after
\* maxAttempts requests.
C9_NullResultRetried ==
    \A q \in Queries : Done(q) =>
        /\ ( /\ NullResult(script[q][1])
             /\ NullResult(script[q][2])
             /\ Succeeds(script[q][3]) )
           => /\ call[q].pc = "returned"
              /\ call[q].returned = script[q][3].result
              /\ call[q].requests = 3
              /\ Len(call[q].delays) = 2
        /\ (\A k \in 1..ETHERSCAN_MAX_RETRIES : NullResult(script[q][k]))
           => /\ call[q].pc = "raised"
              /\ call[q].requests = ETHERSCAN_MAX_RETRIES

\* C10: the error _proxyCall raises is the error of the last attempt it
\* made, never the generic "Exceeded maximum retries" error.
C10_LastErrorRaised ==
    \A q \in Queries : call[q].pc = "raised" =>
        /\ call[q].requests >= 1
        /\ call[q].thrown = TryBody(q, script[q][call[q].requests]).error
        /\ call[q].thrown # GenericRetryError

\* every attempt was made and failed, each with a different error
C10_Witness ==
    /\ call["tx"].pc = "raised"
    /\ call["tx"].requests = ETHERSCAN_MAX_RETRIES
    /\ script["tx"][1].kind = "reject"
    /\ script["tx"][2].hasError
    /\ call["tx"].thrown.type = "NETWORK_ERROR"

\* C30: the k-th delay of a query is ETHERSCAN_RETRY_DELAY_MS * 2^(k-1); a
\* query that has ended after n requests has slept n-1 delays, one between
\* each two requests, and none after its last request.
C30_ExponentialBackoff ==
    \A q \in Queries :
        /\ \A k \in 1..Len(call[q].delays) :
              call[q].delays[k] = ETHERSCAN_RETRY_DELAY_MS * (2 ^ (k - 1))
        /\ call[q].pc = "backoff" => Len(call[q].delays) = call[q].requests
        /\ call[q].pc = "request" => Len(call[q].delays) = call[q].requests
        /\ call[q].pc \in {"returned", "raised"} =>
              Len(call[q].delays) = call[q].requests - 1

\* three failed requests: delays of 100 and 200, none after the third
C30_Witness ==
    /\ call["tx"].pc = "raised"
    /\ call["tx"].requests = 3
    /\ call["tx"].delays = <<100, 200>>

-----------------------------------------------------------------------------
(* Properties of the orchestrator (SpecRun) *)

Invoked(stage) == \E k \in 1..Len(run.log) : run.log[k] = stage

Count(s, x) == Cardinality({k \in 1..Len(s) : s[k] = x})

StagesAfterManager == {"start", "connect", "replay", "diff", "save", "export"}

\* C1: when a stage that runs after the fork manager was created (start,
\* connect, replay, diff, state save, export) raises, kill has been invoked
\* exactly once by the time the error reaches the caller; it is never invoked
\* twice.
C1_KillOnceOnFailure ==
    /\ Len(kills) <= 1
    /\ Count(run.log, "kill") = Len(kills)
    /\ (run.pc = "raised" /\ run.error \in StagesAfterManager)
         => Len(kills) = 1 /\ run.log[Len(run.log)] = "kill"

\* the export stage, the last one that can raise, has raised
C1_Witness ==
    /\ run.pc = "raised"
    /\ run.error = "export"
    /\ Len(kills) = 1

\* C6: when the probe loop ends without a successful probe, start() raises
\* its start error, and in a run where start() raised neither connect,
\* replay nor diff is invoked and the run raises.
C6_StartFailureIsFatal ==
    /\ startCall.i >= maxAttempts
         => startCall.pc = "raised" /\ startCall.error = StartError
    /\ startCall.pc = "raised"
         => /\ ~Invoked("connect")
            /\ ~Invoked("replay")
            /\ ~Invoked("diff")
            /\ run.pc \in {"awaitStart", "catch", "raised"}
            /\ run.pc = "raised" => run.error = "start"

\* twenty probes went unanswered and the run has ended with the start error
C6_Witness ==
    /\ startCall.i = maxAttempts
    /\ startCall.pc = "raised"
    /\ run.pc = "raised"
    /\ run.error = "start"

-----------------------------------------------------------------------------
(* Properties of the fork process manager (SpecAnvil) *)

\* kill() calls made after start() has spawned the process
LiveKills == {k \in 1..Len(kills) : kills[k].spawned}

\* C2: once a kill() made after start() has spawned the process returns, the
\* process has been signalled and is no longer running.
C2_KillLeavesNoProcess ==
    LiveKills # {} => signals # <<>> /\ child.state = "exited"

\* C3: when kill() is invoked while the probe loop of start() is polling,
\* start() does not return successfully.
C3_KillAbortsStart ==
    (\E k \in 1..Len(kills) : kills[k].duringStart)
        => startCall.pc # "returned"

\* C4: kill() never raises; a kill() before any start sends no signal; all
\* the kill() calls on a manager together send at most one graceful and one
\* forceful signal.
C4_KillIdempotent ==
    /\ \A k \in 1..Len(kills) : ~kills[k].raised
    /\ \A k \in 1..Len(kills) : ~kills[k].spawned => kills[k].sent = <<>>
    /\ Count(signals, "SIGINT") <= 1
    /\ Count(signals, "SIGKILL") <= 1

\* a kill before the start, then two kills after it, graceful and forced
C4_Witness ==
    /\ Len(kills) = 3
    /\ ~kills[1].spawned
    /\ kills[2].spawned /\ ~kills[2].force
    /\ kills[3].spawned /\ kills[3].force

\* C5: the first kill() (force = false) on a spawned process sends the
\* graceful signal first, waits at most the grace period, and leaves no
\* running process without having sent the forceful signal.
C5_GracefulThenForceful ==
    \A k \in LiveKills :
        (~kills[k].force /\ \A j \in LiveKills : k <= j)
          => /\ kills[k].sent # <<>>
             /\ kills[k].sent[1] = "SIGINT"
             /\ kills[k].waited <= ANVIL_KILL_TIMEOUT_MS
             /\ kills[k].aliveAfter => kills[k].sent = <<"SIGINT", "SIGKILL">>

\* C25: isRunning() is false before start, true once start() has returned
\* and no kill() was invoked, and false after a kill().
C25_IsRunningReflectsLifecycle ==
    /\ starts = <<>> => ~isRunning
    /\ (startCall.pc = "returned" /\ kills = <<>>) => isRunning
    /\ LiveKills # {} => ~isRunning

\* C26: a manager spawns at most one process: every start() after the one
\* that spawned is refused and spawns nothing, whatever kill() calls were
\* made in between.
C26_AtMostOneProcess ==
    /\ Count(starts, "spawned") <= 1
    /\ \A k \in 2..Len(starts) : starts[k] = "rejected"
    /\ starts # <<>> => starts[1] = "spawned" /\ process = "child"

\* a second start() is refused after a kill() and after the process has gone
C26_Witness ==
    /\ starts = <<"spawned", "rejected">>
    /\ LiveKills # {}
    /\ child.state = "exited"

-----------------------------------------------------------------------------
(* Properties of getTransactionData (SpecFetch) *)

TransactionDataPrefix == <<"Failed", "to", "fetch", "transaction", "data:">>

\* C11 (as claimed): the error getTransactionData raises is the error of one
\* of its queries, unchanged.
C11_ErrorUnchanged ==
    fetch.pc = "raised" =>
        \E q \in Queries : Rejected(q) /\ fetch.thrown = call[q].thrown

\* C11 (amended): the error getTransactionData raises is the error of its
\* failed query unchanged when that error is a ForkTraceError (it has a
\* type); an error without a type, a transport failure, is raised as an
\* ETHERSCAN_ERROR whose message is "Failed to fetch transaction data: "
\* followed by the original message.
C11_ErrorUnchangedIfTyped ==
    fetch.pc = "raised" =>
        \E q \in Queries :
            /\ Rejected(q)
            /\ call[q].thrown.type \in {"NETWORK_ERROR", "ETHERSCAN_ERROR",
                                        "VALIDATION_ERROR"}
                 => fetch.thrown = call[q].thrown
            /\ call[q].thrown.type = "undefined"
                 => /\ fetch.thrown.type = "ETHERSCAN_ERROR"
                    /\ fetch.thrown.message =
                         TransactionDataPrefix \o call[q].thrown.message

\* the block lookup ran out of retries on a non-200 status
C11_Witness ==
    /\ fetch.pc = "raised"
    /\ call["block"].requests = ETHERSCAN_MAX_RETRIES
    /\ call["block"].thrown.type = "NETWORK_ERROR"
    /\ fetch.thrown.type = "NETWORK_ERROR"

\* C12: the block query is started only after the transaction and the
\* receipt queries have both returned, with the transaction's blockNumber as
\* its tag, and never when one of them failed; the transaction and receipt
\* queries are both started as soon as getTransactionData is.
C12_BlockAfterTransaction ==
    /\ call["block"].pc # "idle"
         => /\ call["tx"].pc = "returned"
            /\ call["receipt"].pc = "returned"
            /\ fetch.blockTag = Transaction(call["tx"].returned).blockNumber
            /\ fetch.blockTag # <<>>
    /\ (Rejected("tx") \/ Rejected("receipt")) => call["block"].pc = "idle"
    /\ fetch.pc # "idle" => call["tx"].pc # "idle" /\ call["receipt"].pc # "idle"

\* the receipt was answered before the transaction, then the block was asked
\* for at the transaction's block number
C12_Witness ==
    /\ call["block"].requests >= 1
    /\ call["tx"].requests > call["receipt"].requests
    /\ call["tx"].returned = "txB"
    /\ fetch.blockTag = <<6, 5>>

-----------------------------------------------------------------------------
(* Properties of StateDiff.diff (SpecDiff) *)

\* z = x + y on magnitudes, checked digit by digit
RECURSIVE IsSumFrom(_, _, _, _, _)
IsSumFrom(x, y, z, k, carry) ==
    IF k > Len(x) /\ k > Len(y) /\ k > Len(z) THEN carry = 0
    ELSE LET d == Digit(x, k) + Digit(y, k) + carry
         IN Digit(z, k) = d % 10 /\ IsSumFrom(x, y, z, k + 1, d \div 10)

\* after = before + change, for balances after, before >= 0 and a signed change
IsDelta(before, after, change) ==
    /\ change.neg => change.mag # <<>>
    /\ change.mag # <<>> => change.mag[Len(change.mag)] # 0
    /\ IF change.neg THEN IsSumFrom(after.mag, change.mag, before.mag, 1, 0)
                     ELSE IsSumFrom(before.mag, change.mag, after.mag, 1, 0)

\* 2^63, the first magnitude a signed 64-bit integer cannot hold
TwoTo63 == <<8, 0, 8, 5, 7, 7, 4, 5, 8, 6, 3, 0, 2, 7, 3, 3, 2, 2, 9>>

\* C19: for every address of a diff result, balanceChange is exactly the
\* balance at toBlockTag minus the balance at fromBlockTag, as a signed
\* integer of any size.
C19_BalanceChangeExact ==
    sd.pc = "returned" =>
        \A addr \in DOMAIN sd.result :
            IsDelta(sd.chain[sd.fromBlockTag][addr].balance,
                    sd.chain[sd.toBlockTag][addr].balance,
                    sd.result[addr].balanceChange)

\* a balance that falls from 300000000000000000007 to 999: a negative delta
\* beyond 64 bits
C19_Witness ==
    /\ sd.pc = "returned"
    /\ sd.chain[sd.fromBlockTag]["0xSender"].balance = Balances[5]
    /\ sd.chain[sd.toBlockTag]["0xSender"].balance = Balances[2]
    /\ sd.result["0xSender"].balanceChange.neg
    /\ ~MagLess(sd.result["0xSender"].balanceChange.mag, TwoTo63)

\* C20: for every address of a diff result, `before` and `after` are that
\* address's snapshots at fromBlockTag and toBlockTag, nonceChange is the
\* later nonce minus the earlier one, and codeChanged holds exactly when the
\* code hashes differ.
C20_NonceAndCode ==
    sd.pc = "returned" =>
        \A addr \in DOMAIN sd.result :
            LET e == sd.result[addr]
                b == sd.chain[sd.fromBlockTag][addr]
                a == sd.chain[sd.toBlockTag][addr]
            IN /\ e.before.address = addr /\ e.after.address = addr
               /\ e.before.nonce = b.nonce /\ e.after.nonce = a.nonce
               /\ e.before.codeSize = Len(b.code)
               /\ e.after.codeSize = Len(a.code)
               /\ BigInt(e.before.balance) = b.balance
               /\ BigInt(e.after.balance) = a.balance
               /\ e.nonceChange = a.nonce - b.nonce
               /\ e.codeChanged <=> (e.after.codeHash # e.before.codeHash)
               /\ e.codeChanged <=> (a.code # b.code)

\* two addresses: one deploys code and advances its nonce, one does not
C20_Witness ==
    /\ sd.pc = "returned"
    /\ DOMAIN sd.result = {"0xSender", "0xRecipient"}
    /\ sd.result["0xSender"].codeChanged
    /\ sd.result["0xSender"].nonceChange = 7
    /\ ~sd.result["0xRecipient"].codeChanged
    /\ sd.result["0xRecipient"].nonceChange < 0

-----------------------------------------------------------------------------
(* Properties of replayTransaction (SpecReplay) *)

ReplayedFields == {"to", "value", "data", "gasLimit", "gasPrice"}

\* C17: each of to, value, data, gasLimit and gasPrice of the submitted
\* transaction is the override's value when the overrides map names the
\* field, and the original transaction's value otherwise.
C17_OverridesMerged ==
    replay.sent =>
        \A k \in ReplayedFields :
            replay.submitted[k] =
                IF k \in DOMAIN replay.modifications
                  THEN replay.modifications[k]
                  ELSE replay.originalTx[k]

\* the override {value: "0"}: value "0", the other four fields the original's
C17_Witness ==
    /\ replay.sent
    /\ DOMAIN replay.modifications = {"value"}
    /\ replay.modifications["value"] = "0"
    /\ replay.submitted["value"] = "0"
    /\ replay.originalTx["value"] # "0"
    /\ \A k \in ReplayedFields \ {"value"} :
          replay.submitted[k] = replay.originalTx[k]

\* C18: the submitted transaction carries no sender and no nonce, whatever
\* the overrides map names.
C18_NoCallerSenderOrNonce ==
    replay.sent =>
        /\ "from" \notin DOMAIN replay.submitted
        /\ "nonce" \notin DOMAIN replay.submitted

-----------------------------------------------------------------------------
(* Properties of one run: validation, fork height, replay outcomes (SpecRun) *)

RECURSIVE TotalLength(_)
TotalLength(runs) ==
    IF runs = <<>> THEN 0 ELSE Head(runs).n + TotalLength(Tail(runs))

\* the string 0x followed by exactly 64 hexadecimal characters
WellFormed(hash) ==
    /\ hash.isString
    /\ Len(hash.runs) >= 3
    /\ hash.runs[1] = [ch |-> "0", n |-> 1]
    /\ hash.runs[2] = [ch |-> "x", n |-> 1]
    /\ TotalLength(hash.runs) = 66
    /\ \A k \in 3..Len(hash.runs) :
          hash.runs[k].ch \in
              {"0", "1", "2", "3", "4", "5", "6", "7", "8", "9", "a", "b",
               "c", "d", "e", "f", "A", "B", "C", "D", "E", "F"}

\* C13: a run whose hash is not 0x followed by exactly 64 hexadecimal
\* characters raises an "Invalid transaction hash" error at once: no
\* credential lookup, no indexing request and no fork process precede it.
C13_MalformedHashFailsFast ==
    (run.pc # "idle" /\ ~WellFormed(opts.txHash)) =>
        /\ run.pc = "raised"
        /\ run.error = "validate"
        /\ SubSeq(run.thrown.message, 1, 3) = <<"Invalid", "transaction", "hash:">>
        /\ run.thrown.type # "undefined"
        /\ run.log = <<"validate">>
        /\ ~run.anvil
        /\ starts = <<>>
        /\ process = "null"
        /\ child = NoChild
        /\ \A q \in Queries : call[q] = IdleCall

\* a hash with a sixty-fifth hexadecimal character is refused
C13_Witness ==
    /\ run.pc = "raised"
    /\ run.error = "validate"
    /\ opts.txHash.isString
    /\ TotalLength(opts.txHash.runs) = 67
    /\ opts.txHash.runs[3] = [ch |-> "a", n |-> 65]

\* the block a transaction was mined at
MinedAt(id) ==
    CASE id = "txA" -> 100
      [] id = "txB" -> 101
      [] id = "txC" -> 256

\* C14: a run that returns for a transaction mined at block B started the
\* fork at B-1, computed the diff between B-1 and B, and the keys of the diff
\* are the sender and the recipient, the sender alone when there is no
\* recipient.
C14_ForkBeforeAndDiffKeys ==
    run.pc = "returned" =>
        LET tx == Transaction(run.tx)
        IN /\ Invoked("start")
           /\ run.forkBlock = MinedAt(run.tx) - 1
           /\ sd.pc = "returned"
           /\ sd.fromBlockTag = MinedAt(run.tx) - 1
           /\ sd.toBlockTag = MinedAt(run.tx)
           /\ DOMAIN sd.result =
                 {tx.from} \cup (IF tx.to = "null" THEN {} ELSE {tx.to})

\* a contract creation mined at block 101: fork at 100, one key
C14_Witness ==
    /\ run.pc = "returned"
    /\ run.tx = "txB"
    /\ run.forkBlock = 100
    /\ DOMAIN sd.result = {"0xSender"}

\* the transaction reverted on the fork: a receipt with status 0, or a
\* rejection of the submission or of the wait that carries a receipt
RevertsOnChain(env) ==
    /\ env.lookup = "found"
    /\ \/ env.send = "resolves" /\ env.wait = "resolves"
          /\ env.receipt.status = "0"
       \/ "rejects" \in {env.send, env.wait} /\ env.failure.hasReceipt

\* the submission or the wait was rejected with an error without a receipt
RejectedWithoutReceipt(env) ==
    /\ env.lookup = "found"
    /\ "rejects" \in {env.send, env.wait}
    /\ ~env.failure.hasReceipt

\* C15: when the replayed transaction reverts on the fork, replayTransaction
\* returns status "failed" with a revertReason that is not null, raises
\* nothing, and the run goes on to the diff.
C15_RevertIsAnOutcome ==
    (replay.pc # "idle" /\ RevertsOnChain(replay.env)) =>
        /\ replay.pc = "returned"
        /\ replay.thrown = NoFailure
        /\ replay.result.status = "failed"
        /\ replay.result.revertReason \notin {"null", "undefined", ""}
        /\ run.error # "replay"
        /\ run.pc = "diff" \/ Invoked("diff")

\* a wait rejected with a receipt and no reason, and the diff computed
C15_Witness ==
    /\ replay.pc = "returned"
    /\ replay.env.lookup = "found"
    /\ replay.env.wait = "rejects"
    /\ replay.env.failure.hasReceipt
    /\ replay.env.failure.reason = "undefined"
    /\ replay.result.revertReason = "Transaction execution reverted"
    /\ sd.pc = "returned"

\* C16: when the submission or the wait is rejected with an error without a
\* receipt, replayTransaction raises that error and returns nothing; the run
\* raises the same error after the kill, and computes no diff.
C16_RejectionPropagates ==
    (replay.pc # "idle" /\ RejectedWithoutReceipt(replay.env)) =>
        /\ replay.pc = "raised"
        /\ replay.thrown = replay.env.failure
        /\ replay.result = NoOutcome
        /\ run.pc \in {"catch", "raised"}
        /\ run.error = "replay"
        /\ run.thrown = replay.env.failure
        /\ ~Invoked("diff")
        /\ sd = IdleDiff
        /\ run.pc = "raised" => run.log[Len(run.log)] = "kill"

\* the submission is rejected without a receipt; the run has raised it
C16_Witness ==
    /\ replay.pc = "raised"
    /\ replay.env.lookup = "found"
    /\ replay.env.send = "rejects"
    /\ ~replay.env.failure.hasReceipt
    /\ run.pc = "raised"
    /\ run.thrown = replay.env.failure

\* C21: in every snapshot the code hash is the sentinel exactly when the
\* address has no code, the sentinel is no hash of deployed code, and
\* codeChanged holds whenever code appears or disappears.
C21_EmptyCodeSentinel ==
    sd.pc = "returned" =>
        \A addr \in DOMAIN sd.result :
            LET e == sd.result[addr]
                b == sd.chain[sd.fromBlockTag][addr]
                a == sd.chain[sd.toBlockTag][addr]
            IN /\ (e.before.codeHash = EmptyHex) <=> (Len(b.code) = 0)
               /\ (e.after.codeHash = EmptyHex) <=> (Len(a.code) = 0)
               /\ \A acct \in Accounts :
                     Len(acct.code) > 0 => keccak256(acct.code) # EmptyHex
               /\ ((Len(b.code) = 0) # (Len(a.code) = 0)) => e.codeChanged

\* code is deployed at the sender between the two tags
C21_Witness ==
    /\ sd.pc = "returned"
    /\ Len(sd.chain[sd.fromBlockTag]["0xSender"].code) = 0
    /\ Len(sd.chain[sd.toBlockTag]["0xSender"].code) > 0
    /\ sd.result["0xSender"].before.codeHash = EmptyHex
    /\ sd.result["0xSender"].codeChanged

-----------------------------------------------------------------------------
(* Properties of one run: AI fallback, rethrow, cleanup order, export
   (SpecRun) and of the command (SpecCli) *)

\* every stage the options ask for has been invoked
RequestedStagesInvoked ==
    /\ Invoked("connect") /\ Invoked("replay") /\ Invoked("diff")
    /\ opts.ai => Invoked("ai")
    /\ opts.saveState => Invoked("save")
    /\ opts.export => Invoked("export")

\* C22: when the AI analysis was requested and is not available, the run has
\* an analysis payload with available = false, has not raised because of it,
\* goes on to the save, the export and the kill, and returns.
C22_AiFailureSwallowed ==
    (Invoked("ai") /\ ~run.aiAnalysis.available) =>
        /\ ~run.aiAnalysis.isNull
        /\ run.error # "ai"
        /\ run.error = "none" =>
              run.pc \in {"save", "export", "cleanup", "returned"}
        /\ run.pc = "returned" => RequestedStagesInvoked /\ Invoked("kill")

\* the AI stage raised inside its try block; save and export ran, the run
\* returned
C22_Witness ==
    /\ run.pc = "returned"
    /\ run.aiAnalysis = FailedAnalysis
    /\ Invoked("save")
    /\ Invoked("export")
    /\ run.log[Len(run.log)] = "kill"

\* the error the failing stage raised
StageFailure ==
    CASE run.error = "validate" ->
            createReplayError(<<"Invalid", "transaction", "hash:">>
                              \o HashText(opts.txHash))
      [] run.error = "start" -> startCall.error
      [] run.error = "replay" -> replay.thrown
      [] OTHER -> StageError(run.error)

\* C23: the error a run raises is the error of the stage that failed; the
\* kill() of the catch block has been called when there is a manager, and
\* neither it nor a failure of it changes the error.
C23_RethrownUnchanged ==
    run.pc = "raised" =>
        /\ run.error # "none"
        /\ run.thrown.type = StageFailure.type
        /\ run.thrown.message = StageFailure.message
        /\ run.error = "replay" => run.thrown = StageFailure
        /\ run.anvil => run.log[Len(run.log)] = "kill"

\* the wait was rejected without a receipt; after the kill the run raised it
C23_Witness ==
    /\ run.pc = "raised"
    /\ run.error = "replay"
    /\ replay.env.wait = "rejects"
    /\ run.thrown = replay.env.failure
    /\ Len(kills) = 1

\* C24: no kill() is invoked while a stage between start() and Step 9 is
\* awaited, the state save included; a run that returns has invoked kill()
\* exactly once, as its last call, after replay, diff and every requested
\* collaborator.
C24_KillLastOnSuccess ==
    /\ run.pc \in {Stages[k] : k \in 1..Len(Stages)} =>
          kills = <<>> /\ ~_killed /\ ~Invoked("kill")
    /\ run.pc = "returned" =>
          /\ Count(run.log, "kill") = 1
          /\ Len(kills) = 1
          /\ run.log[Len(run.log)] = "kill"
          /\ RequestedStagesInvoked

\* all three collaborators requested: the full sequence, the kill last
C24_Witness ==
    /\ run.pc = "returned"
    /\ run.log = <<"validate", "apiKey", "fetch", "start", "connect",
                   "replay", "diff", "ai", "save", "export", "kill">>

\* C28: in the data handed to the exporter, balanceChange, nonceChange and
\* the balances of before and after are strings, and balanceChange is the
\* decimal string of the delta.
C28_IntegersAreStrings ==
    run.exportData.built =>
        /\ run.exportData.typeof.balanceChange = "string"
        /\ run.exportData.typeof.balance = "string"
        /\ run.exportData.typeof.nonceChange = "string"
        /\ \A addr \in DOMAIN run.exportData.stateDiff :
              run.exportData.stateDiff[addr].balanceChange =
                  BigToString(sd.result[addr].balanceChange)

\* C29: the action exits with a non-zero code when the hash is malformed,
\* without calling runForkTrace, and when runForkTrace raised; it reports
\* success only when runForkTrace returned after every requested stage.
C29_ExitCode ==
    /\ (cli.pc # "idle" /\ ~WellFormed(opts.txHash)) =>
          cli.pc = "exited" /\ cli.exitCode # 0 /\ run = IdleRun
    /\ (cli.pc \in {"exited", "done"} /\ run.pc = "raised") =>
          cli.pc = "exited" /\ cli.exitCode # 0
    /\ cli.pc = "exited" => cli.exitCode # 0
    /\ (cli.pc = "done" \/ cli.reported = "All done!") =>
          /\ cli.exitCode = 0
          /\ run.pc = "returned"
          /\ run.error = "none"
          /\ RequestedStagesInvoked

\* the replay raised: the action exited with code 1
C29_Witness ==
    /\ cli.pc = "exited"
    /\ cli.exitCode = 1
    /\ run.pc = "raised"
    /\ run.error = "replay"

-----------------------------------------------------------------------------
(* Properties of the returned ReplayOutcome (SpecReplay) *)

\* C31: every outcome replayTransaction returns has status "success" or
\* "failed"; with "success" the revertReason is null, with "failed" it is
\* not null, whatever status the receipt carries.
C31_OutcomeWellFormed ==
    replay.pc = "returned" =>
        /\ replay.result.status \in {"success", "failed"}
        /\ replay.result.status = "success" =>
              replay.result.revertReason = "null"
        /\ replay.result.status = "failed" =>
              replay.result.revertReason \notin {"null", "undefined"}

-----------------------------------------------------------------------------
(* Properties of the fallback analysis (SpecRun) *)

\* C38: the fallback analysis made for a replay outcome says SUCCESS when the
\* outcome's status is "success" and FAILED when it is "failed".
C38_FallbackReportsStatus ==
    run.aiAnalysis.model = "fallback" =>
        /\ replay.result.status = "success" =>
              run.aiAnalysis.status = "SUCCESS"
        /\ replay.result.status = "failed" =>
              run.aiAnalysis.status = "FAILED"

-----------------------------------------------------------------------------
(* Properties of captureState under concurrent queries (SpecCapture) *)

\* C32: in whatever order the queries settle, the map captureState returns
\* has exactly one entry per supplied address, and the entry under an address
\* is the snapshot of that address at the requested block tag.
C32_KeyedByAddress ==
    sd.pc = "captured" =>
        /\ DOMAIN sd.result =
              {sd.addresses[k] : k \in 1..Len(sd.addresses)}
        /\ \A addr \in DOMAIN sd.result :
              sd.result[addr] =
                  getAccountSnapshot(sd.chain, addr, sd.blockTag)

\* the code query of the second address settled before any query of the
\* first, the two accounts differ, and they differ from the other tag's
C32_Witness ==
    /\ sd.pc = "captured"
    /\ sd.first = <<2, 3>>
    /\ Len(sd.addresses) = 2
    /\ sd.addresses[1] # sd.addresses[2]
    /\ sd.chain[sd.blockTag][sd.addresses[1]] #
          sd.chain[sd.blockTag][sd.addresses[2]]
    /\ sd.chain[99] # sd.chain[100]

-----------------------------------------------------------------------------------------------------------------------------------------------------
(* Properties of a successful start() (SpecAnvil) *)

\* C34: start() returns successfully only when the process it spawned is
\* alive and is the one that answered the probe: not after the spawned
\* process has exited, and not on the answer of another process that holds
\* the port.
C34_StartMeansOwnProcess ==
    [][ (startCall.pc # "returned" /\ startCall'.pc = "returned")
            => /\ child.state = "alive"
               /\ child.listening
               /\ port # "foreign" ]_vars

-----
(* Properties of kill(true) (SpecAnvil) *)

\* a step in which a kill(force) call is made and returns
KillStep(force) ==
    /\ Len(kills') = Len(kills) + 1
    /\ kills'[Len(kills')].force = force

\* C33: kill(true) on a manager whose spawned process is alive sends SIGINT
\* immediately followed by SIGKILL and returns without waiting; a kill call
\* made after such a kill(true) sends no signal.
C33_ForceKill ==
    [][ /\ (KillStep(TRUE) /\ process # "null" /\ child.state = "alive")
            => /\ signals' = signals \o <<"SIGINT", "SIGKILL">>
               /\ kills'[Len(kills')].waited = 0
        /\ ((\E force \in BOOLEAN : KillStep(force))
              /\ \E k \in 1..Len(kills) : kills[k].force /\ kills[k].spawned)
            => signals' = signals ]_vars

-----------------------------------------------------------------------------
(* Properties after getTransactionData has raised (SpecFetch) *)

\* C35: once getTransactionData has raised, no further request is sent and
\* no retry delay is begun for any of its queries: the failure of one of
\* the two concurrent queries stops the other's remaining retries.
C35_NoRequestAfterRaise ==
    [][ fetch.pc = "raised" =>
            \A q \in Queries : /\ call'[q].requests = call[q].requests
                               /\ call'[q].delays = call[q].delays ]_vars

-----------------------------------------------------------------------------
(* Properties of the StateManager (SpecState) *)

\* the saveState calls, direct or through createCheckpoint, that returned
SuccessfulSaves ==
    {k \in 1..Len(sm.calls) :
        /\ sm.calls[k].op \in {"saveState", "createCheckpoint"}
        /\ ~sm.calls[k].raised}

\* C36: after every successful saveState the state directory holds at most
\* maxStates state files, the file just written is among them, and the
\* files deleted are only the oldest by creation time beyond the limit.
C36_CleanupKeepsNewest ==
    \A k \in SuccessfulSaves :
        LET c == sm.calls[k]
            retained == DOMAIN c.listed \ c.deleted
        IN /\ Cardinality(retained) <= sm.maxStates
           /\ c.filename \in retained
           /\ \A d \in c.deleted, r \in retained :
                 c.listed[d].created <= c.listed[r].created
           /\ c.deleted # {} =>
                 Cardinality(retained) = sm.maxStates

\* the most recent successful createCheckpoint(checkpointName) before call k,
\* or 0
LastCheckpoint(checkpointName, k) ==
    LET made == {j \in 1..(k - 1) :
                    /\ sm.calls[j].op = "createCheckpoint"
                    /\ sm.calls[j].arg = checkpointName
                    /\ ~sm.calls[j].raised}
    IN IF made = {} THEN 0
       ELSE CHOOSE j \in made : \A i \in made : i <= j

\* C37: restoreCheckpoint(n) made after createCheckpoint(n) loads the file
\* the most recent createCheckpoint(n) wrote (here: whenever that file is
\* still in the directory as written), never the file of a checkpoint of
\* another name, also when another checkpoint's name contains n or n has
\* characters that createCheckpoint replaces.
C37_RestoreRoundTrip ==
    \A k \in 1..Len(sm.calls) :
        LET c == sm.calls[k]
            j == LastCheckpoint(c.arg, k)
        IN (/\ c.op = "restoreCheckpoint"
            /\ j # 0
            /\ sm.calls[j].filename \in DOMAIN c.listed
            /\ c.listed[sm.calls[j].filename].content = sm.calls[j].content)
           => c.filename = sm.calls[j].filename

====
